---- MODULE Spec2Model ----
(***************************************************************************)
(* A model of the issuance message of counterpartylib                      *)
(* (counterpartylib/lib/messages/issuance.py): the wire decoding done by   *)
(* parse, validate, and the ledger mutations of parse.                     *)
(*                                                                         *)
(* Representation.                                                         *)
(*  - A message is a sequence of bytes (0..255), decoded at the byte       *)
(*    offsets struct.unpack uses.                                          *)
(*  - Text (an asset name, a description) is a sequence of code points,    *)
(*    an asset name a sequence of one-character strings.                   *)
(*  - SQL NULL / Python None in a row is NULL (numbers and BOOL columns,   *)
(*    which SQLite stores as 1 / 0), NoName (asset columns) or NoText.     *)
(*  - status is the sequence <<"valid">> or <<"invalid">> \o problems: the *)
(*    string 'invalid: ' + '; '.join(problems) kept as its parts.          *)
(*  - call_price is held in millionths (the code rounds it to 6 places).   *)
(*  - Python integers are unbounded and TLC's are 32 bits wide, so the     *)
(*    ceiling config.MAX_INT = 2^63 - 1 is scaled to 2^IntBits - 1 and     *)
(*    config.UNIT = 10^8 to 10^UnitDigits; every quantity on the wire in   *)
(*    the model is below 2^31.                                             *)
(***************************************************************************)
EXTENDS Integers, Sequences, FiniteSets, TLC

VARIABLES
    issuances,      \* the issuances table, in tx_index order
    assets,         \* the assets table, in insertion order
    balances,       \* the balances table: <<address, asset>> -> quantity
    assetgroups,    \* the calls parse has made to assetgroup.create
    cfg,            \* network mode and protocol-change activation heights
    block,          \* util.CURRENT_BLOCK_INDEX
    tx_count,       \* the number of transactions parsed so far
    raised,         \* the exception that left parse, "none" if none did
    last            \* what the latest call of parse was given and did

vars == <<issuances, assets, balances, assetgroups, cfg, block, tx_count, raised, last>>

----------------------------------------------------------------------------
(* Bounds of the model. *)

MaxTx == 4          \* transactions parsed in one behaviour of Spec
MaxTxLock == 4      \* ... of SpecLock
MaxTxFlags == 3     \* ... of SpecFlags
MaxTxFrame == 3     \* ... of SpecFrame
MaxTxOverflow == 3  \* ... of SpecOverflow
MaxTxFee == 2       \* ... of SpecFee
MaxTxFunds == 3     \* ... of SpecFunds
MaxTxLockText == 3  \* ... of SpecLockText
MaxTxSub == 3       \* ... of SpecSub
MaxTxCodec == 1     \* ... of SpecCodec
MaxTxText == 2      \* ... of SpecText
MaxTxVend == 4      \* ... of SpecVend
MaxTxCall == 3      \* ... of SpecCall
MaxTxParent == 4    \* ... of SpecParent
MaxTxLayout == 3    \* ... of SpecLayout
MaxTxFirst == 3     \* ... of SpecFirst
MaxTxNative == 3    \* ... of SpecNative
MaxTxCompose == 3   \* ... of SpecCompose
IntBits == 28       \* config.MAX_INT is 2^IntBits - 1 (2^63 - 1 in the program)
UnitDigits == 4     \* config.UNIT is 10^UnitDigits (10^8 in the program)

----------------------------------------------------------------------------
(* Program constants. *)

RECURSIVE Pow(_, _)
Pow(b, e) == IF e = 0 THEN 1 ELSE b * Pow(b, e - 1)

ID == 20
SUBASSET_ID == 21
LENGTH_1 == 8 + 8 + 1
LENGTH_2 == 8 + 8 + 1 + 1 + 4 + 4
SUBASSET_FORMAT_LENGTH == 8 + 8 + 1 + 1

MAX_INT == Pow(2, IntBits) - 1
UNIT == Pow(10, UnitDigits)

BTC == <<"B", "T", "C">>
XCP == <<"X", "C", "P">>

NULL == -1
NoName == <<>>
NoText == <<NULL>>
NoAddr == ""

GateNames == {"non_fungible_assets", "issuance_lock_fix", "enable_vendable_fix",
              "numeric_asset_names", "subassets", "fee_revision_2021_1q",
              "delisted_assets", "non_reassignable_assets",
              "integer_overflow_fix", "utf-8_codec_fixes"}

Never == 9999999

\* util.enabled(name, block_index): the named protocol change is active at
\* that height.  Without a block_index the code passes util.CURRENT_BLOCK_INDEX,
\* which the host sets to the height of the transaction being parsed.
enabled(name, block_index) == block_index >= cfg.activation[name]

TESTNET == cfg.network = "testnet"
REGTEST == cfg.network = "regtest"

----------------------------------------------------------------------------
(* Bytes and text. *)

Byte == 0..255

RECURSIVE UnpackBE(_)
\* struct.unpack of a big-endian unsigned field ('>Q', '>I', '>B')
UnpackBE(bs) ==
    IF bs = <<>> THEN 0
    ELSE UnpackBE(SubSeq(bs, 1, Len(bs) - 1)) * 256 + bs[Len(bs)]

RECURSIVE PackBE(_, _)
\* struct.pack of a big-endian unsigned field of k bytes
PackBE(n, k) ==
    IF k = 0 THEN <<>> ELSE Append(PackBE(n \div 256, k - 1), n % 256)

\* struct.unpack of '>f', rounded to 6 places, in millionths.  Defined for
\* zero and for the floats with exponent >= 0 whose low 16 mantissa bits are
\* zero, the only ones the model sends.
UnpackF32(bs) ==
    LET sign == bs[1] \div 128
        e    == (bs[1] % 128) * 2 + bs[2] \div 128
        m7   == bs[2] % 128
        mag  == IF e = 0 THEN 0
                ELSE ((128 + m7) * 15625 * Pow(2, e - 127)) \div 2
    IN IF sign = 1 THEN 0 - mag ELSE mag

\* bytes.decode('utf-8'): the model sends ASCII and the byte 0xFF, which no
\* UTF-8 text contains.
Utf8Valid(bs) == \A i \in 1..Len(bs) : bs[i] < 128

\* bytes.decode('utf-8', 'replace'): U+FFFD for each undecodable byte
Utf8Replace(bs) == [i \in 1..Len(bs) |-> IF bs[i] < 128 THEN bs[i] ELSE 65533]

\* str.lower()
Lower(s) == [i \in 1..Len(s) |-> IF s[i] >= 65 /\ s[i] <= 90 THEN s[i] + 32 ELSE s[i]]

LockText == <<108, 111, 99, 107>>       \* 'lock'

\* A Python bool bound to a BOOL column is stored as 1 or 0, and bool(x) of
\* the cell read back is x = 1 (NULL is falsy).
SqlBool(b) == IF b THEN 1 ELSE 0
Truthy(x) == x = 1

----------------------------------------------------------------------------
(* The util collaborator's codecs, on the asset ids and names the model    *)
(* uses.                                                                   *)

IdBTC  == <<0, 0, 0, 0, 0, 0, 0, 0>>            \* 0
IdXCP  == <<0, 0, 0, 0, 0, 0, 0, 1>>            \* 1
IdLow  == <<0, 0, 0, 0, 0, 0, 0, 2>>            \* 2, below 26^3
IdBAAA == <<0, 0, 0, 0, 0, 0, 68, 168>>         \* 26^3
IdBAAB == <<0, 0, 0, 0, 0, 0, 68, 169>>         \* 26^3 + 1
IdB6   == <<0, 0, 0, 0, 0, 181, 75, 160>>       \* 26^5
IdNum1 == <<1, 83, 8, 33, 103, 27, 16, 1>>      \* 26^12 + 1
IdNum2 == <<1, 83, 8, 33, 103, 27, 16, 2>>      \* 26^12 + 2

BAAA == <<"B", "A", "A", "A">>
BAAB == <<"B", "A", "A", "B">>
B6 == <<"B", "A", "A", "A", "A", "A">>
Num1 == <<"A", "9", "5", "4", "2", "8", "9", "5", "6", "6", "6", "1", "6", "8", "2", "1", "7", "7">>
Num2 == <<"A", "9", "5", "4", "2", "8", "9", "5", "6", "6", "6", "1", "6", "8", "2", "1", "7", "8">>
B13a == <<"B", "A", "A", "A", "A", "A", "A", "A", "A", "A", "A", "A", "B">>
B13b == <<"B", "A", "A", "A", "A", "A", "A", "A", "A", "A", "A", "A", "C">>

\* util.generate_asset_name(asset_id, block_index); NoName stands for
\* AssetIDError.  Ids 0 and 1 are the two native symbols, ids below 26^3 are
\* too low, ids from 26^12 + 1 are numeric names ('A' and the decimal id)
\* once numeric_asset_names is active, and every other id is its base-26
\* spelling.
generate_asset_name(asset_id, block_index) ==
    CASE asset_id = IdBTC  -> BTC
      [] asset_id = IdXCP  -> XCP
      [] asset_id = IdLow  -> NoName
      [] asset_id = IdBAAA -> BAAA
      [] asset_id = IdBAAB -> BAAB
      [] asset_id = IdB6   -> B6
      [] asset_id = IdNum1 ->
            IF enabled("numeric_asset_names", block_index) THEN Num1 ELSE B13a
      [] asset_id = IdNum2 ->
            IF enabled("numeric_asset_names", block_index) THEN Num2 ELSE B13b
      [] OTHER -> NoName

\* The position of the first '.' of a name, 0 if it has none
DotAt(name) ==
    IF \E i \in 1..Len(name) : name[i] = "."
    THEN CHOOSE i \in 1..Len(name) :
            name[i] = "." /\ \A j \in 1..(i - 1) : name[j] # "."
    ELSE 0

\* util.parse_subasset_from_asset_name(name): (parent, longname), the
\* longname None when the name has no '.'
parse_subasset_from_asset_name(name) ==
    IF DotAt(name) = 0
    THEN [parent |-> name, longname |-> NoName]
    ELSE [parent |-> SubSeq(name, 1, DotAt(name) - 1), longname |-> name]

\* util.validate_subasset_longname(longname [, group]) does not fail: the
\* name has a parent of at least 4 characters and a non-empty child (a
\* group name needs no '.').
validate_subasset_longname(longname, group) ==
    IF group = NoName
    THEN DotAt(longname) >= 5 /\ DotAt(longname) < Len(longname)
    ELSE Len(longname) >= 4

LongX == <<"B", "A", "A", "A", ".", "x">>       \* 'BAAA.x'
LongY == <<"B", "A", "A", "B", ".", "y">>       \* 'BAAB.y'
LongBad == <<"B", ".">>                         \* 'B.', not a sub-asset name
GroupG == <<"G", "R", "P", "1">>                \* 'GRP1', a group name

\* util.expand_subasset_longname(bytes) on the compacted names the model
\* sends: the text the bytes compact.
expand_subasset_longname(bs) ==
    CASE bs = <<1, 1>> -> LongX
      [] bs = <<1, 2>> -> LongY
      [] bs = <<3>>    -> GroupG
      [] OTHER         -> LongBad

----------------------------------------------------------------------------
(* parse, lines 420-481: unpacking the message. *)

Bit(flags, k) == (flags \div Pow(2, k)) % 2 = 1

\* the five booleans of a flags byte read without any inversion
FlagFields_Positive(flags) ==
    [divisible    |-> Bit(flags, 0),
     listed       |-> Bit(flags, 1),
     reassignable |-> Bit(flags, 2),
     vendable     |-> Bit(flags, 3),
     fungible     |-> Bit(flags, 4)]

\* the five booleans of a flags byte
FlagFields(flags) ==
    [divisible    |-> Bit(flags, 0),
     listed       |-> ~Bit(flags, 1),
     reassignable |-> ~Bit(flags, 2),
     vendable     |-> ~Bit(flags, 3),
     fungible     |-> ~Bit(flags, 4)]

\* description.decode('utf-8') with its UnicodeDecodeError handler
DecodeDescription(bs, block_index) ==
    IF Utf8Valid(bs) THEN bs
    ELSE IF enabled("utf-8_codec_fixes", block_index) THEN Utf8Replace(bs)
    ELSE <<>>

\* struct.unpack of a '{n}p' field, n >= 1: a length byte, then at most
\* n - 1 bytes of text
UnpackPascal(field) ==
    LET n == IF field[1] >= Len(field) THEN Len(field) - 1 ELSE field[1]
    IN SubSeq(field, 2, 1 + n)

Raise(exc, layout) == [exc |-> exc, layout |-> layout]

UnpackSubasset(message, block_index) ==
    IF ~enabled("subassets", block_index) THEN Raise("UnpackError", "SUBASSET")
    ELSE IF Len(message) < SUBASSET_FORMAT_LENGTH THEN Raise("struct.error", "SUBASSET")
    ELSE
    LET compacted_subasset_length == message[18]
        description_length ==
            Len(message) - SUBASSET_FORMAT_LENGTH - compacted_subasset_length
        compacted_subasset_longname ==
            SubSeq(message, 19, 18 + compacted_subasset_length)
        description == SubSeq(message, 19 + compacted_subasset_length, Len(message))
    IN IF description_length < 0 THEN Raise("UnpackError", "SUBASSET")
       ELSE [exc |-> "none", layout |-> "SUBASSET",
             asset_id |-> SubSeq(message, 1, 8),
             quantity |-> UnpackBE(SubSeq(message, 9, 16)),
             flags |-> FlagFields(message[17]),
             callable |-> FALSE, call_date |-> 0, call_price |-> 0,
             description |-> DecodeDescription(description, block_index),
             subasset_longname |-> expand_subasset_longname(compacted_subasset_longname)]

UnpackFormat2(message, block_index) ==
    LET tail == SubSeq(message, LENGTH_2 + 1, Len(message))
    IN IF Len(tail) = 0 THEN Raise("SystemError", "FORMAT_2")    \* '0p'
       ELSE [exc |-> "none", layout |-> "FORMAT_2",
             asset_id |-> SubSeq(message, 1, 8),
             quantity |-> UnpackBE(SubSeq(message, 9, 16)),
             flags |-> FlagFields(message[17]),
             callable |-> message[18] # 0,
             call_date |-> UnpackBE(SubSeq(message, 19, 22)),
             call_price |-> UnpackF32(SubSeq(message, 23, 26)),
             description |->
                DecodeDescription(IF Len(message) - LENGTH_2 <= 42
                                  THEN UnpackPascal(tail) ELSE tail, block_index),
             subasset_longname |-> NoName]

UnpackFormat1(message) ==
    IF Len(message) # LENGTH_1 THEN Raise("UnpackError", "FORMAT_1")
    ELSE [exc |-> "none", layout |-> "FORMAT_1",
          asset_id |-> SubSeq(message, 1, 8),
          quantity |-> UnpackBE(SubSeq(message, 9, 16)),
          flags |-> FlagFields(IF message[17] # 0 THEN 1 ELSE 0),  \* '?'
          callable |-> FALSE, call_date |-> 0, call_price |-> 0,
          description |-> <<>>,
          subasset_longname |-> NoName]

\* the 17-byte layout tried only where the long one is not in force
Unpack_ShortBeforeFork(message, message_type_id, block_index) ==
    IF message_type_id = SUBASSET_ID THEN UnpackSubasset(message, block_index)
    ELSE IF block_index > 283271 \/ TESTNET \/ REGTEST
         THEN IF Len(message) >= LENGTH_2 THEN UnpackFormat2(message, block_index)
              ELSE Raise("UnpackError", "FORMAT_2")
    ELSE UnpackFormat1(message)

\* lines 423-472: the layout the message is read in
Unpack(message, message_type_id, block_index) ==
    IF message_type_id = SUBASSET_ID THEN UnpackSubasset(message, block_index)
    ELSE IF (block_index > 283271 \/ TESTNET \/ REGTEST) /\ Len(message) >= LENGTH_2
         THEN UnpackFormat2(message, block_index)
    ELSE UnpackFormat1(message)

----------------------------------------------------------------------------
(* validate, lines 130-326. *)

\* problems.append(msg) under a condition
Problem(cond, msg) == IF cond THEN <<msg>> ELSE <<>>

RECURSIVE SumQuantity(_)
\* sum([issuance['quantity'] for issuance in issuances])
SumQuantity(rows) ==
    IF rows = <<>> THEN 0 ELSE rows[1].quantity + SumQuantity(Tail(rows))

IsValidRow(r) == r.status = <<"valid">>

\* SELECT * FROM issuances WHERE (status = 'valid' AND asset = ?) ORDER BY tx_index ASC
ValidIssuances(db, asset) ==
    SelectSeq(db.issuances, LAMBDA r : IsValidRow(r) /\ r.asset = asset)

\* no name is reserved
ReservedProblems_None(asset) == <<>>

\* lines 134-135
ReservedProblems(asset) == Problem(asset \in {BTC, XCP}, "cannot issue BTC or XCP")

\* lines 159-166
FungibilityProblems(fungible, divisible, quantity, block_index) ==
    IF enabled("non_fungible_assets", block_index)
    THEN IF ~fungible
         THEN IF divisible
              THEN <<"Cannot create the asset with non-fungible and divisible">>
              ELSE Problem(quantity # 1, "non-fungible asset can issue only 1 asset")
         ELSE <<>>
    ELSE Problem(~fungible, "non-fungible assets not enabled")

\* lines 168-170
SignProblems(quantity, call_price, call_date) ==
       Problem(quantity < 0, "negative quantity")
    \o Problem(call_price < 0, "negative call price")
    \o Problem(call_date < 0, "negative call date")

\* lines 172-181: the call fields of an issuance that is not callable
ZeroCallFields(callable, block_index) ==
    ~callable /\ (block_index >= 312500 \/ TESTNET \/ REGTEST)

CallableProblems(callable, call_date, call_price, block_index) ==
    IF ~callable /\ ~(block_index >= 312500 \/ TESTNET \/ REGTEST) /\ block_index >= 310000
    THEN    Problem(call_date # 0, "call date for non-callable asset")
         \o Problem(call_price # 0, "call price for non-callable asset")
    ELSE <<>>

\* the lock looked for in every valid issuance, whatever the height
IssuanceLocked_AnyRow(rows, block_index) == \E i \in 1..Len(rows) : Truthy(rows[i].locked)

\* the lock looked for in the last issuance only, whatever the height
IssuanceLocked_LastOnly(rows, block_index) == Truthy(rows[Len(rows)].locked)

\* lines 195-203
IssuanceLocked(rows, block_index) ==
    IF enabled("issuance_lock_fix", block_index)
    THEN \E i \in 1..Len(rows) : Truthy(rows[i].locked)
    ELSE Truthy(rows[Len(rows)].locked)

\* no ownership check
IssuerProblems_None(last_issuance, source) == <<>>

\* the ownership check against the last issuance's source
IssuerProblems_Source(last_issuance, source) ==
    Problem(last_issuance.source # source, "issued by another address")

\* line 205
IssuerProblems(last_issuance, source) ==
    Problem(last_issuance.issuer # source, "issued by another address")

\* the flag checks without the one on divisibility
FlagProblems_NoDivisibility(last_issuance, divisible, listed, reassignable) ==
       Problem(Truthy(last_issuance.listed) # listed, "cannot change listing flag")
    \o Problem(Truthy(last_issuance.reassignable) # reassignable,
               "cannot change reassignable flag")

\* lines 207-212
FlagProblems(last_issuance, divisible, listed, reassignable) ==
       Problem(Truthy(last_issuance.divisible) # divisible, "cannot change divisibility")
    \o Problem(Truthy(last_issuance.listed) # listed, "cannot change listing flag")
    \o Problem(Truthy(last_issuance.reassignable) # reassignable,
               "cannot change reassignable flag")

\* the check of the vendable flag without the question to the dispensers
VendableProblems_NoDispenser(last_issuance, vendable, dispenser_opened, block_index) ==
    Problem(/\ Truthy(last_issuance.vendable) # vendable
            /\ last_issuance.vendable = 0 \/ enabled("enable_vendable_fix", block_index),
            "Cannot change vendable flag")

\* lines 213-218
VendableProblems(last_issuance, vendable, dispenser_opened, block_index) ==
    IF Truthy(last_issuance.vendable) # vendable
    THEN IF last_issuance.vendable = 0 \/ enabled("enable_vendable_fix", block_index)
         THEN <<"Cannot change vendable flag">>
         ELSE Problem(dispenser_opened,
                      "Cannot change vendable flag because the asset is dispending")
    ELSE <<>>

\* lines 219-224
CallProblems(last_issuance, callable, call_date, call_price, block_index) ==
       Problem(Truthy(last_issuance.callable) # callable, "cannot change callability")
    \o Problem(/\ last_issuance.call_date > call_date
               /\ \/ call_date # 0
                  \/ block_index < 312500 /\ (~TESTNET \/ ~REGTEST),
               "cannot advance call date")
    \o Problem(last_issuance.call_price > call_price, "cannot reduce call price")

\* line 225
LockProblems(rows, quantity, block_index) ==
    Problem(IssuanceLocked(rows, block_index) /\ quantity # 0,
            "locked asset and non-zero quantity")

\* the checks of a reissuance, and none of a first issuance
ReissuanceProblems_NoFirstChecks(m, call_date, call_price, rows) ==
    IF rows # <<>>
    THEN    IssuerProblems(rows[Len(rows)], m.source)
         \o FlagProblems(rows[Len(rows)], m.divisible, m.listed, m.reassignable)
         \o VendableProblems(rows[Len(rows)], m.vendable, m.dispenser_opened,
                             m.block_index)
         \o CallProblems(rows[Len(rows)], m.callable, call_date, call_price,
                         m.block_index)
         \o LockProblems(rows, m.quantity, m.block_index)
    ELSE <<>>

\* lines 191-232
ReissuanceProblems(m, call_date, call_price, rows) ==
    IF rows # <<>>
    THEN    IssuerProblems(rows[Len(rows)], m.source)
         \o FlagProblems(rows[Len(rows)], m.divisible, m.listed, m.reassignable)
         \o VendableProblems(rows[Len(rows)], m.vendable, m.dispenser_opened,
                             m.block_index)
         \o CallProblems(rows[Len(rows)], m.callable, call_date, call_price,
                         m.block_index)
         \o LockProblems(rows, m.quantity, m.block_index)
    ELSE    Problem(Lower(m.description) = LockText /\ m.fungible,
                    "cannot lock a non-existent asset")
         \o Problem(m.destination # NoAddr, "cannot transfer a non-existent asset")

\* the check of the parent without the one of its owner
ParentProblems_AnyOwner(db, m) ==
    IF m.subasset_longname = NoName THEN <<>>
    ELSE IF m.fungible
    THEN Problem(ValidIssuances(db, m.subasset_parent) = <<>>, "parent asset not found")
    ELSE m.assetgroup_problems

\* lines 234-251
ParentProblems(db, m) ==
    IF m.subasset_longname = NoName THEN <<>>
    ELSE IF m.fungible
    THEN LET Owned(parent_issuances) ==
                IF parent_issuances # <<>>
                THEN Problem(parent_issuances[Len(parent_issuances)].issuer # m.source,
                             "parent asset owned by another address")
                ELSE <<"parent asset not found">>
         IN Owned(ValidIssuances(db, m.subasset_parent))
    ELSE m.assetgroup_problems      \* assetgroup.validate(db, subasset_longname, source)

\* the checks of a first sub-asset issuance without the one for duplicates
SubassetProblems_NoDuplicates(db, m, reissuance) ==
    IF m.subasset_longname # NoName /\ ~reissuance
    THEN Problem(m.asset[1] # "A", "parent asset must be a numeric asset")
    ELSE <<>>

\* lines 253-267
SubassetProblems(db, m, reissuance) ==
    IF m.subasset_longname # NoName /\ ~reissuance
    THEN    Problem(/\ m.fungible
                    /\ \E i \in 1..Len(db.assets) :
                           db.assets[i].asset_longname = m.subasset_longname,
                    "subasset already exists")
         \o Problem(m.asset[1] # "A", "parent asset must be a numeric asset")
    ELSE <<>>

\* a fee due on every issuance that passes the first gate, reissuances too
FeeDue_Reissuances(quantity, reissuance, block_index) ==
    quantity # 0 \/ block_index >= 315000 \/ TESTNET \/ REGTEST

\* lines 271-272: whether a fee is due at all
FeeDue(quantity, reissuance, block_index) ==
    /\ quantity # 0 \/ block_index >= 315000 \/ TESTNET \/ REGTEST
    /\ ~reissuance \/ (block_index < 310000 /\ ~TESTNET /\ ~REGTEST)

\* the fee schedule with the revision of line 291 applied to every row
FeeSchedule_AllRows(m) ==
    LET base ==
            IF enabled("numeric_asset_names", m.block_index)
            THEN IF m.subasset_longname # NoName
                 THEN IF enabled("subassets", m.block_index) /\ m.fungible
                      THEN (25 * UNIT) \div 100
                      ELSE (25 * UNIT) \div 10000
                 ELSE IF Len(m.asset) >= 13 THEN 0
                 ELSE (5 * UNIT) \div 10
            ELSE IF m.block_index >= 291700 \/ TESTNET \/ REGTEST THEN (5 * UNIT) \div 10
            ELSE IF m.block_index >= 286000 \/ TESTNET \/ REGTEST THEN 5 * UNIT
            ELSE IF m.block_index > 281236 \/ TESTNET \/ REGTEST THEN 5
            ELSE 0
    IN IF enabled("fee_revision_2021_1q", m.block_index) THEN base * 100 ELSE base

\* lines 278-298: the fee schedule
FeeSchedule(m) ==
    IF enabled("numeric_asset_names", m.block_index)
    THEN LET base ==
                IF m.subasset_longname # NoName
                THEN IF enabled("subassets", m.block_index) /\ m.fungible
                     THEN (25 * UNIT) \div 100
                     ELSE (25 * UNIT) \div 10000
                ELSE IF Len(m.asset) >= 13 THEN 0
                ELSE (5 * UNIT) \div 10
         IN IF enabled("fee_revision_2021_1q", m.block_index) THEN base * 100 ELSE base
    ELSE IF m.block_index >= 291700 \/ TESTNET \/ REGTEST THEN (5 * UNIT) \div 10
    ELSE IF m.block_index >= 286000 \/ TESTNET \/ REGTEST THEN 5 * UNIT
    ELSE IF m.block_index > 281236 \/ TESTNET \/ REGTEST THEN 5
    ELSE 0

Fee(m, reissuance) ==
    IF FeeDue(m.quantity, reissuance, m.block_index) THEN FeeSchedule(m) ELSE 0

\* no check of the funds at all
FundsProblems_None(db, m, fee) == <<>>

\* lines 273-277 and 299-300
FundsProblems(db, m, fee) ==
    Problem(/\ fee # 0
            /\ \/ <<m.source, XCP>> \notin DOMAIN db.balances
               \/ db.balances[<<m.source, XCP>>] < fee,
            "insufficient funds")

\* lines 302-310
LengthAndGateProblems(m) ==
       Problem(~(m.block_index >= 317500 \/ TESTNET \/ REGTEST) /\ Len(m.description) > 42,
               "description too long")
    \o Problem(~m.listed /\ ~enabled("delisted_assets", m.block_index),
               "invalid: delisted assets not supported yet.")
    \o Problem(~m.reassignable /\ ~enabled("non_reassignable_assets", m.block_index),
               "invalid: non-reassignable assets not supported yet.")

\* the overflow check on the message's quantity alone
TotalProblems_QuantityOnly(total, quantity) ==
    Problem(quantity > MAX_INT, "total quantity overflow")

\* lines 314-317
TotalProblems(total, quantity) ==
    Problem(total + quantity > MAX_INT, "total quantity overflow")

\* lines 319-320
TransferProblems(destination, quantity) ==
    Problem(destination # NoAddr /\ quantity # 0, "cannot issue and transfer simultaneously")

\* the check of lines 323-324 on the fee alone
OverflowProblems_FeeOnly(fee, quantity, block_index) ==
    Problem(enabled("integer_overflow_fix", block_index) /\ fee > MAX_INT,
            "integer overflow")

\* lines 323-324
OverflowProblems(fee, quantity, block_index) ==
    Problem(/\ enabled("integer_overflow_fix", block_index)
            /\ fee > MAX_INT \/ quantity > MAX_INT,
            "integer overflow")

Min(a, b) == IF a < b THEN a ELSE b

\* validate(db, source, destination, asset, ..., block_index), with the
\* arguments in the record m.  parse passes decoded values, never None, so
\* the defaults of lines 137-146 and the type checks of lines 149-157 do not
\* act.
validate(db, m) ==
    LET Result(rows, reissuance, call_date, call_price, fee) ==
            [call_date  |-> Min(call_date, MAX_INT),
             call_price |-> call_price,
             problems   |->
                   ReservedProblems(m.asset)
                \o FungibilityProblems(m.fungible, m.divisible, m.quantity, m.block_index)
                \o SignProblems(m.quantity, m.call_price, m.call_date)
                \o CallableProblems(m.callable, m.call_date, m.call_price, m.block_index)
                \o ReissuanceProblems(m, call_date, call_price, rows)
                \o ParentProblems(db, m)
                \o SubassetProblems(db, m, reissuance)
                \o FundsProblems(db, m, fee)
                \o LengthAndGateProblems(m)
                \o TotalProblems(SumQuantity(rows), m.quantity)
                \o TransferProblems(m.destination, m.quantity)
                \o OverflowProblems(fee, m.quantity, m.block_index),
             fee        |-> fee,
             reissuance |-> reissuance,
             reissued_asset_longname |->
                IF reissuance THEN rows[Len(rows)].asset_longname ELSE NoName]
        WithRows(rows, zero) ==
            Result(rows, rows # <<>>,
                   IF zero THEN 0 ELSE m.call_date,
                   IF zero THEN 0 ELSE m.call_price,
                   Fee(m, rows # <<>>))
    IN WithRows(ValidIssuances(db, m.asset), ZeroCallFields(m.callable, m.block_index))

----------------------------------------------------------------------------
(* parse, lines 417-604. *)

Contains(seq, x) == \E i \in 1..Len(seq) : seq[i] = x

\* 'invalid: ' + '; '.join(problems)
Invalid(problems) == <<"invalid">> \o problems

\* lines 483-500: the sub-asset name of a Type 21 message.  The result is
\* the status, asset, subasset_parent and subasset_longname that follow.
SubassetNames(u, asset, status) ==
    IF status = <<"valid">> /\ u.subasset_longname # NoName
    THEN IF u.flags.fungible
         THEN IF validate_subasset_longname(u.subasset_longname, NoName)
              THEN [status |-> status, asset |-> asset,
                    subasset_parent |->
                        parse_subasset_from_asset_name(u.subasset_longname).parent,
                    subasset_longname |->
                        parse_subasset_from_asset_name(u.subasset_longname).longname]
              ELSE [status |-> Invalid(<<"bad subasset name">>), asset |-> NoName,
                    subasset_parent |-> NoName,
                    subasset_longname |-> u.subasset_longname]
         ELSE IF validate_subasset_longname(u.subasset_longname, u.subasset_longname)
              THEN [status |-> status, asset |-> asset, subasset_parent |-> asset,
                    subasset_longname |-> u.subasset_longname]
              ELSE [status |-> Invalid(<<"bad assetgroup name">>), asset |-> NoName,
                    subasset_parent |-> asset,
                    subasset_longname |-> u.subasset_longname]
    ELSE [status |-> status, asset |-> asset, subasset_parent |-> NoName,
          subasset_longname |-> u.subasset_longname]

\* a transfer that leaves the source as the issuer
TransferFields_KeepIssuer(tx, quantity) ==
    IF tx.destination # NoAddr
    THEN [issuer |-> tx.source, transfer |-> TRUE, quantity |-> 0]
    ELSE [issuer |-> tx.source, transfer |-> FALSE, quantity |-> quantity]

\* a transfer that keeps the message's quantity
TransferFields_KeepQuantity(tx, quantity) ==
    IF tx.destination # NoAddr
    THEN [issuer |-> tx.destination, transfer |-> TRUE, quantity |-> quantity]
    ELSE [issuer |-> tx.source, transfer |-> FALSE, quantity |-> quantity]

\* lines 511-517: the issuer, transfer and quantity of the row
TransferFields(tx, quantity) ==
    IF tx.destination # NoAddr
    THEN [issuer |-> tx.destination, transfer |-> TRUE, quantity |-> 0]
    ELSE [issuer |-> tx.source, transfer |-> FALSE, quantity |-> quantity]

\* lines 508-509
ZeroedQuantity(quantity, problems, block_index) ==
    IF ~enabled("integer_overflow_fix", block_index)
       /\ Contains(problems, "total quantity overflow")
    THEN 0 ELSE quantity

\* 'lock' in lower case only
IsLockText_Exact(description) == description = LockText

\* lines 524-551: lock, with the description the row gets
IsLockText(description) == description # <<>> /\ Lower(description) = LockText

LockOf(status, reissuance, fungible, description) ==
    /\ status = <<"valid">>
    /\ IF ~reissuance THEN ~fungible ELSE IsLockText(description)

\* line 541
AssertionFails(status, reissuance, description) ==
    status = <<"valid">> /\ ~reissuance /\ IsLockText(description)

\* line 583
Stored(status) == ~Contains(status, "integer overflow")

\* line 590 (fungible is None when the message did not unpack)
CallsAssetgroupCreate(unpacked, fungible) == ~unpacked \/ ~fungible

\* no credit at all
Credits_Never(status, quantity) == FALSE

\* a credit whatever the status
Credits_AnyStatus(status, quantity) == quantity # NULL /\ quantity # 0

\* line 600
Credits(status, quantity) == status = <<"valid">> /\ quantity # NULL /\ quantity # 0

\* util.debit(db, address, asset, quantity): the balance row, if any, loses
\* quantity
debit(bal, address, asset, quantity) ==
    IF <<address, asset>> \in DOMAIN bal
    THEN [bal EXCEPT ![<<address, asset>>] = @ - quantity]
    ELSE bal

\* util.credit(db, address, asset, quantity): the balance row gains
\* quantity, and is created if there is none
credit(bal, address, asset, quantity) ==
    IF <<address, asset>> \in DOMAIN bal
    THEN [bal EXCEPT ![<<address, asset>>] = @ + quantity]
    ELSE [k \in DOMAIN bal \cup {<<address, asset>>} |->
            IF k = <<address, asset>> THEN quantity ELSE bal[k]]

DB == [issuances |-> issuances, assets |-> assets, balances |-> balances]

\* lines 420-500: the message unpacked and named.  The result carries the
\* status so far and the arguments validate will get.
Decoded(tx, u, ext) ==
    LET Named(sa) ==
            [status |-> sa.status, unpacked |-> TRUE, asset_id |-> u.asset_id,
             source |-> tx.source, destination |-> tx.destination,
             asset |-> sa.asset, quantity |-> u.quantity,
             divisible |-> u.flags.divisible, listed |-> u.flags.listed,
             reassignable |-> u.flags.reassignable,
             vendable |-> u.flags.vendable, fungible |-> u.flags.fungible,
             callable |-> u.callable, call_date |-> u.call_date,
             call_price |-> u.call_price, description |-> u.description,
             subasset_parent |-> sa.subasset_parent,
             subasset_longname |-> sa.subasset_longname,
             block_index |-> tx.block_index,
             assetgroup_problems |-> ext.assetgroup_problems,
             dispenser_opened |-> ext.dispenser_opened]
        WithName(name) ==
            Named(SubassetNames(u, name,
                                IF name = NoName THEN Invalid(<<"bad asset name">>)
                                ELSE <<"valid">>))
    IN IF u.exc = "none"
       THEN WithName(generate_asset_name(u.asset_id, tx.block_index))
       ELSE \* line 480: every field is None
            [status |-> Invalid(<<"could not unpack">>), unpacked |-> FALSE,
             asset_id |-> <<>>,
             source |-> tx.source, destination |-> tx.destination,
             asset |-> NoName, quantity |-> NULL,
             divisible |-> FALSE, listed |-> FALSE, reassignable |-> FALSE,
             vendable |-> FALSE, fungible |-> FALSE,
             callable |-> FALSE, call_date |-> NULL, call_price |-> NULL,
             description |-> NoText,
             subasset_parent |-> NoName, subasset_longname |-> NoName,
             block_index |-> tx.block_index,
             assetgroup_problems |-> ext.assetgroup_problems,
             dispenser_opened |-> ext.dispenser_opened]

\* lines 502-509: validate, run only on a message whose status is still valid
Validated(db, m) ==
    IF m.status = <<"valid">> THEN validate(db, m)
    ELSE [call_date |-> m.call_date, call_price |-> m.call_price,
          problems |-> <<>>, fee |-> 0, reissuance |-> FALSE,
          reissued_asset_longname |-> NoName]

\* lines 507-582: the status, the lock and the issuance row
Outcome(db, tx, m, v) ==
    LET Row(status, tf, lock) ==
            [status |-> status,
             valid |-> status = <<"valid">>,
             quantity |-> tf.quantity,
             row |-> [tx_index     |-> tx.tx_index,
                      tx_hash      |-> tx.tx_hash,
                      msg_index    |-> 0,
                      block_index  |-> tx.block_index,
                      asset        |-> m.asset,
                      quantity     |-> tf.quantity,
                      divisible    |-> IF m.unpacked THEN SqlBool(m.divisible) ELSE NULL,
                      vendable     |-> IF m.unpacked THEN SqlBool(m.vendable) ELSE NULL,
                      listed       |-> IF m.unpacked THEN SqlBool(m.listed) ELSE NULL,
                      reassignable |-> IF m.unpacked THEN SqlBool(m.reassignable) ELSE NULL,
                      fungible     |-> IF m.unpacked THEN SqlBool(m.fungible) ELSE NULL,
                      source       |-> tx.source,
                      issuer       |-> tf.issuer,
                      transfer     |-> SqlBool(tf.transfer),
                      callable     |-> IF m.unpacked THEN SqlBool(m.callable) ELSE NULL,
                      call_date    |-> v.call_date,
                      call_price   |-> v.call_price,
                      description  |->
                         IF status = <<"valid">> /\ v.reissuance
                            /\ IsLockText(m.description)
                         THEN ValidIssuances(db, m.asset)[
                                  Len(ValidIssuances(db, m.asset))].description
                         ELSE m.description,
                      fee_paid     |-> v.fee,
                      locked       |-> SqlBool(lock),
                      status       |-> status,
                      asset_longname |->
                         IF status = <<"valid">> /\ v.reissuance
                         THEN v.reissued_asset_longname
                         ELSE m.subasset_longname]]
        WithStatus(status) ==
            Row(status,
                TransferFields(tx,
                    IF m.status = <<"valid">>
                    THEN ZeroedQuantity(m.quantity, v.problems, tx.block_index)
                    ELSE m.quantity),
                LockOf(status, v.reissuance, m.fungible, m.description))
    IN WithStatus(IF v.problems # <<>> THEN Invalid(v.problems) ELSE m.status)

\* lines 527-536: the assets row of a first issuance
AssetRow(tx, m) ==
    [asset_id |-> m.asset_id, asset_name |-> m.asset, block_index |-> tx.block_index,
     asset_longname |-> IF m.fungible THEN m.subasset_longname ELSE NoName,
     asset_group |-> IF m.fungible THEN NoName ELSE m.subasset_longname]

\* what the latest call was given and did, for the properties that speak of
\* one call: the transaction, the message's type, bytes, length and flags
\* byte (NULL if it has fewer than 17 bytes), the layout it
\* was read in, the decoded message m, the status, whether the row was
\* stored, the amounts debited and credited, and whether assetgroup.create
\* was called
Did(tx, message_type_id, message, u, m, status, stored, debited, credited, created, reissuance) ==
    [tx |-> tx, message_type_id |-> message_type_id, message |-> message,
     length |-> Len(message),
     flags |-> IF Len(message) >= LENGTH_1 THEN message[LENGTH_1] ELSE NULL,
     layout |-> u.layout, unpacked |-> u.exc = "none", m |-> m, status |-> status,
     stored |-> stored, debit |-> debited, credit |-> credited, created |-> created,
     reissuance |-> reissuance]

\* parse(db, tx, message, message_type_id).  ext holds what the collaborators
\* outside this module answer during the call: assetgroup.validate's
\* problems and dispenser.is_opened.
parse(tx, message, message_type_id, ext) ==
    \E u \in {Unpack(message, message_type_id, tx.block_index)} :
    /\ raised = "none"
    /\ tx_count' = tx_count + 1
    /\ block' = tx.block_index
    /\ cfg' = cfg
    /\ IF u.exc \notin {"none", "UnpackError"}
       THEN \* struct.unpack raised something parse does not catch
            /\ raised' = u.exc
            /\ UNCHANGED <<issuances, assets, balances, assetgroups>>
            /\ last' = Did(tx, message_type_id, message, u, Decoded(tx, u, ext), <<>>,
                           FALSE, 0, 0, FALSE, FALSE)
       ELSE
       \E m \in {Decoded(tx, u, ext)} :
       \E v \in {Validated(DB, m)} :
       \E o \in {Outcome(DB, tx, m, v)} :
       \E debited \in {IF o.valid THEN debit(balances, tx.source, XCP, v.fee)
                       ELSE balances} :
       \E new_assets \in {IF o.valid /\ ~v.reissuance
                          THEN Append(assets, AssetRow(tx, m)) ELSE assets} :
       IF AssertionFails(o.status, v.reissuance, m.description)
       THEN \* the assert of line 541 fails, after the debit and the assets row
            /\ raised' = "AssertionError"
            /\ balances' = debited
            /\ assets' = new_assets
            /\ UNCHANGED <<issuances, assetgroups>>
            /\ last' = Did(tx, message_type_id, message, u, m, o.status, FALSE, v.fee,
                           0, FALSE, v.reissuance)
       ELSE /\ raised' = "none"
            /\ assets' = new_assets
            /\ issuances' = IF Stored(o.status) THEN Append(issuances, o.row)
                            ELSE issuances
            /\ assetgroups' =
                 IF CallsAssetgroupCreate(m.unpacked, m.fungible)
                 THEN Append(assetgroups,
                             [tx_index |-> tx.tx_index,
                              asset_longname |-> o.row.asset_longname,
                              issuer |-> o.row.issuer, status |-> o.status])
                 ELSE assetgroups
            /\ balances' =
                 IF Credits(o.status, o.quantity)
                 THEN credit(debited, tx.source, m.asset, o.quantity)
                 ELSE debited
            /\ last' = Did(tx, message_type_id, message, u, m, o.status,
                           Stored(o.status),
                           IF o.valid THEN v.fee ELSE 0,
                           IF Credits(o.status, o.quantity) THEN o.quantity ELSE 0,
                           CallsAssetgroupCreate(m.unpacked, m.fungible),
                           v.reissuance)

----------------------------------------------------------------------------
(* Building messages: the packing of compose, lines 379-409, and the       *)
(* legacy 17-byte layout FORMAT_1.                                         *)

\* lines 389-393
PackFlags(divisible, listed, reassignable, vendable, fungible) ==
      (IF divisible THEN 1 ELSE 0)
    + (IF listed THEN 0 ELSE 2)
    + (IF reassignable THEN 0 ELSE 4)
    + (IF vendable THEN 0 ELSE 8)
    + (IF fungible THEN 0 ELSE 16)

\* struct.pack of '>f' for the call prices the model sends (in millionths)
PackF32(call_price) ==
    CASE call_price = 0       -> <<0, 0, 0, 0>>
      [] call_price = 1000000 -> <<63, 128, 0, 0>>
      [] call_price = 2000000 -> <<64, 0, 0, 0>>
      [] call_price = 0 - 1000000 -> <<191, 128, 0, 0>>

\* lines 384-387: the description as a '{n+1}p' field or as '{n}s'
PackDescription(encoded_description) ==
    IF Len(encoded_description) <= 42
    THEN <<Len(encoded_description)>> \o encoded_description
    ELSE encoded_description

\* lines 388-394: a Type 20 message
PackIssuance(asset_id, quantity, flags, callable, call_date, call_price, description) ==
       asset_id \o PackBE(quantity, 8) \o <<flags>> \o <<IF callable THEN 1 ELSE 0>>
    \o PackBE(call_date, 4) \o PackF32(call_price) \o PackDescription(description)

\* lines 399-409: a Type 21 message
PackSubasset(asset_id, quantity, flags, compacted_subasset_longname, description) ==
       asset_id \o PackBE(quantity, 8) \o <<flags>>
    \o <<Len(compacted_subasset_longname)>> \o compacted_subasset_longname
    \o description

\* FORMAT_1, '>QQ?'
PackShort(asset_id, quantity, divisible) ==
    asset_id \o PackBE(quantity, 8) \o <<IF divisible THEN 1 ELSE 0>>

----------------------------------------------------------------------------
(* The host: it hands parse one transaction after the other, in ascending  *)
(* tx_index and at non-decreasing heights.                                 *)

A1 == "a1"
A2 == "a2"

NoExt == [assetgroup_problems |-> <<>>, dispenser_opened |-> FALSE]

\* a transaction carrying a Type 20 message without call fields
Send20(source, destination, asset_id, quantity, flags, description, block_index) ==
    [source |-> source, destination |-> destination, block_index |-> block_index,
     message_type_id |-> ID,
     message |-> PackIssuance(asset_id, quantity, flags, FALSE, 0, 0, description),
     ext |-> NoExt]

\* a transaction carrying a Type 20 message of a callable asset
SendCallable20(source, destination, asset_id, quantity, flags, description, block_index) ==
    [source |-> source, destination |-> destination, block_index |-> block_index,
     message_type_id |-> ID,
     message |-> PackIssuance(asset_id, quantity, flags, TRUE, 0, 0, description),
     ext |-> NoExt]

\* a transaction carrying any bytes as a message of the given type
SendRaw(source, destination, message_type_id, message, block_index) ==
    [source |-> source, destination |-> destination, block_index |-> block_index,
     message_type_id |-> message_type_id, message |-> message, ext |-> NoExt]

\* a transaction carrying a legacy 17-byte Type 20 message
SendShort(source, destination, asset_id, quantity, divisible, block_index) ==
    SendRaw(source, destination, ID, PackShort(asset_id, quantity, divisible), block_index)

\* a transaction carrying a Type 21 message
Send21(source, destination, asset_id, quantity, flags, compacted, description, block_index) ==
    SendRaw(source, destination, SUBASSET_ID,
            PackSubasset(asset_id, quantity, flags, compacted, description), block_index)

\* a call whose collaborators answer anything: assetgroup.validate finds a
\* problem or none, a dispenser is open or not
Parse_AnyAnswer(t, max) ==
    /\ tx_count < max
    /\ t.block_index >= block
    /\ \E problems \in {<<>>, <<"asset group owned by another address">>} :
       \E opened \in BOOLEAN :
          parse([tx_index |-> tx_count + 1, tx_hash |-> tx_count + 1,
                 block_index |-> t.block_index, source |-> t.source,
                 destination |-> t.destination],
                t.message, t.message_type_id,
                [assetgroup_problems |-> problems, dispenser_opened |-> opened])

\* one call of parse by the host's block loop, the max-th at most
Parse(t, max) ==
    /\ tx_count < max
    /\ t.block_index >= block
    /\ parse([tx_index |-> tx_count + 1, tx_hash |-> tx_count + 1,
              block_index |-> t.block_index, source |-> t.source,
              destination |-> t.destination],
             t.message, t.message_type_id, t.ext)

\* network mode and activation heights: every protocol change active from
\* the start, but for those in off
Config(network, off) ==
    [network |-> network,
     activation |-> [g \in GateNames |-> IF g \in off THEN Never ELSE 0]]

NoTx == [tx_index |-> 0, tx_hash |-> 0, block_index |-> 0, source |-> NoAddr,
         destination |-> NoAddr]

NoLast ==
    [tx |-> NoTx, message_type_id |-> 0, message |-> <<>>, length |-> 0,
     flags |-> NULL, layout |-> "",
     unpacked |-> FALSE, m |-> Decoded(NoTx, Raise("", ""), NoExt), status |-> <<>>,
     stored |-> FALSE, debit |-> 0, credit |-> 0, created |-> FALSE,
     reissuance |-> FALSE]

\* the ledger after initialise(db): empty tables, and the native-asset
\* balance address a1 holds from earlier blocks
InitLedger(configs, funds) ==
    /\ issuances = <<>>
    /\ assets = <<>>
    /\ balances = [k \in {<<A1, XCP>>} |-> funds]
    /\ assetgroups = <<>>
    /\ cfg \in configs
    /\ block = 0
    /\ tx_count = 0
    /\ raised = "none"
    /\ last = NoLast

LOCK == <<76, 79, 67, 75>>          \* 'LOCK'
lock == <<108, 111, 99, 107>>       \* 'lock'
Later == 320000                     \* a height past every height-keyed change
Funds == 500 * UNIT                 \* enough for several first issuances

----------------------------------------------------------------------------
(* Spec: issuances, reissuances and transfers of one asset by two          *)
(* addresses, with integer_overflow_fix on or off.                         *)

LedgerTxs ==
    { Send20(s, d, IdBAAA, q, 1, <<>>, Later) :
        s \in {A1, A2}, d \in {NoAddr, A2}, q \in {0, 1, MAX_INT} }

Init ==
    InitLedger({Config("mainnet", off) : off \in SUBSET {"integer_overflow_fix"}}, Funds)

Next == \E t \in LedgerTxs : Parse(t, MaxTx)

Spec == Init /\ [][Next]_vars

----------------------------------------------------------------------------
(* Properties of the ledger. *)

Rows == 1..Len(issuances)

\* the valid issuances of row j's asset that precede row j
PriorValid(j) ==
    {i \in 1..(j - 1) : IsValidRow(issuances[i]) /\ issuances[i].asset = issuances[j].asset}

Max(S) == CHOOSE x \in S : \A y \in S : y <= x
MinOf(S) == CHOOSE x \in S : \A y \in S : x <= y

\* the row the latest call of parse stored
LastRow == issuances[Len(issuances)]

\* C1: for every asset, the quantities of its issuance rows with status
\* 'valid' sum to at most MAX_INT, whether integer_overflow_fix is on or off.
C1_SupplyWithinMaxInt ==
    \A j \in Rows :
        SumQuantity(ValidIssuances(DB, issuances[j].asset)) <= MAX_INT

\* an issuance that would have pushed a full supply over MAX_INT was
\* rejected, with integer_overflow_fix off
C1_Witness ==
    /\ ~enabled("integer_overflow_fix", Later)
    /\ SumQuantity(ValidIssuances(DB, BAAA)) = MAX_INT
    /\ \E j \in Rows : /\ issuances[j].asset = BAAA
                       /\ issuances[j].source = A1
                       /\ Contains(issuances[j].status, "total quantity overflow")

\* C2: a valid issuance of an asset that already has a valid issuance comes
\* from the issuer of the most recent prior valid issuance, and an issuance
\* from any other source has 'issued by another address' in its status.
C2_SourceIsLastIssuer ==
    \A j \in Rows :
        PriorValid(j) # {} =>
            /\ IsValidRow(issuances[j]) =>
                   issuances[j].source = issuances[Max(PriorValid(j))].issuer
            /\ issuances[j].source # issuances[Max(PriorValid(j))].issuer =>
                   Contains(issuances[j].status, "issued by another address")

\* the new owner reissued validly after a transfer, and the old owner was
\* turned away
C2_Witness ==
    \E j, k \in Rows :
        /\ PriorValid(j) # {} /\ IsValidRow(issuances[j])
        /\ issuances[Max(PriorValid(j))].transfer = 1
        /\ issuances[j].source = A2
        /\ k > j /\ issuances[k].source = A1
        /\ Contains(issuances[k].status, "issued by another address")

\* C3, as stated: every valid issuance after the first comes from the issuer
\* of the FIRST valid issuance of its asset.
C3_SourceIsFirstIssuer ==
    \A j \in Rows :
        PriorValid(j) # {} /\ IsValidRow(issuances[j]) =>
            issuances[j].source = issuances[MinOf(PriorValid(j))].issuer

\* the valid transfers among the prior valid issuances of row j's asset
PriorTransfers(j) == {i \in PriorValid(j) : issuances[i].transfer = 1}

\* C3, amended: a valid issuance after the first comes from the issuer of the
\* first valid issuance as long as no valid transfer of the asset precedes
\* it, and from the destination of the latest valid transfer otherwise.
C3_SourceIsFirstIssuerUntilTransfer ==
    \A j \in Rows :
        PriorValid(j) # {} /\ IsValidRow(issuances[j]) =>
            IF PriorTransfers(j) = {}
            THEN issuances[j].source = issuances[MinOf(PriorValid(j))].issuer
            ELSE issuances[j].source = issuances[Max(PriorTransfers(j))].issuer

\* a1 issued and reissued, transferred to a2, and a2 reissued
C3_Witness ==
    \E i, j, k \in Rows :
        /\ i < j /\ j < k
        /\ PriorValid(i) # {} /\ IsValidRow(issuances[i]) /\ issuances[i].source = A1
        /\ PriorTransfers(i) = {}
        /\ IsValidRow(issuances[j]) /\ issuances[j].transfer = 1
        /\ issuances[j].issuer = A2
        /\ IsValidRow(issuances[k]) /\ issuances[k].source = A2
        /\ issuances[k].asset = issuances[i].asset /\ issuances[j].asset = issuances[i].asset

\* C7: the row of a message with a destination has transfer set, the
\* destination as issuer and quantity 0, the row of a message without one
\* has transfer clear and the source as issuer; a message with a destination
\* and a non-zero quantity is not valid, and no message with a destination
\* credits a balance.
C7_TransferRows ==
    tx_count > 0 /\ raised = "none" =>
        /\ last.stored =>
              IF last.tx.destination # NoAddr
              THEN /\ LastRow.transfer = 1
                   /\ LastRow.issuer = last.tx.destination
                   /\ LastRow.quantity = 0
              ELSE /\ LastRow.transfer = 0
                   /\ LastRow.issuer = last.tx.source
        /\ last.tx.destination # NoAddr =>
              /\ last.credit = 0
              /\ last.unpacked /\ last.m.quantity # 0 => last.status # <<"valid">>
              /\ last.m.status = <<"valid">> /\ last.m.quantity # 0 =>
                    Contains(last.status, "cannot issue and transfer simultaneously")

\* a message with a destination and a quantity was stored with quantity 0
C7_Witness ==
    /\ tx_count > 0 /\ last.stored
    /\ last.tx.destination = A2 /\ last.m.quantity = 1
    /\ LastRow.quantity = 0 /\ LastRow.transfer = 1
    /\ Contains(last.status, "cannot issue and transfer simultaneously")

----------------------------------------------------------------------------
(* SpecLock: issuances, locks ('LOCK' as the description), transfers and   *)
(* reissuances of one asset, with issuance_lock_fix on or off.             *)

LockTxs ==
    { Send20(sd[1], sd[2], IdBAAA, q, 1, desc, Later) :
        sd \in {<<A1, NoAddr>>, <<A1, A2>>, <<A2, NoAddr>>},
        q \in {0, 1}, desc \in {<<>>, LOCK} }

InitLock ==
    InitLedger({Config("mainnet", off) : off \in SUBSET {"issuance_lock_fix"}}, Funds)

NextLock == \E t \in LockTxs : Parse(t, MaxTxLock)

SpecLock == InitLock /\ [][NextLock]_vars

\* C4: where issuance_lock_fix is active, a valid issuance that follows a
\* valid locked issuance of the same asset has quantity 0, whatever valid
\* transfers or zero-quantity reissuances lie between the two.
C4_LockedSupplyNeverGrows ==
    \A j \in Rows :
        /\ IsValidRow(issuances[j])
        /\ enabled("issuance_lock_fix", issuances[j].block_index)
        /\ \E i \in PriorValid(j) : issuances[i].locked = 1
        => issuances[j].quantity = 0

\* after a lock and a valid transfer that is itself not locked, the new
\* owner's issuance of one unit was turned away
C4_Witness ==
    \E i, j, k \in Rows :
        /\ i < j /\ j < k
        /\ enabled("issuance_lock_fix", issuances[k].block_index)
        /\ IsValidRow(issuances[i]) /\ issuances[i].locked = 1
        /\ IsValidRow(issuances[j]) /\ issuances[j].locked = 0
        /\ issuances[j].transfer = 1 /\ issuances[j].asset = issuances[i].asset
        /\ issuances[k].asset = issuances[i].asset
        /\ issuances[k].source = issuances[j].issuer
        /\ Contains(issuances[k].status, "locked asset and non-zero quantity")

----------------------------------------------------------------------------
(* SpecFlags: issuances and reissuances of one asset by its owner under    *)
(* different flags, fungible and non-fungible, callable and not, with      *)
(* integer_overflow_fix on or off.                                         *)

FlagTxs ==
    { Send20(A1, NoAddr, IdBAAA, q, f, <<>>, Later) :
        q \in {0, 1, MAX_INT + 1}, f \in {0, 1, 3, 5, 16, 17} }
    \cup { SendCallable20(A1, NoAddr, IdBAAA, q, 1, <<>>, Later) : q \in {0, 1} }

InitFlags ==
    InitLedger({Config("mainnet", off) : off \in SUBSET {"integer_overflow_fix"}}, Funds)

NextFlags == \E t \in FlagTxs : Parse(t, MaxTxFlags)

SpecFlags == InitFlags /\ [][NextFlags]_vars

\* the assets with a valid issuance whose fungible flag is false
NonFungibleAssets ==
    {issuances[j].asset : j \in {i \in Rows : IsValidRow(issuances[i])
                                              /\ issuances[i].fungible = 0}}

\* C5: a non-fungible asset has exactly one valid issuance row, with
\* quantity 1, divisible false and locked true.
C5_NonFungibleSingular ==
    \A a \in NonFungibleAssets :
        /\ Len(ValidIssuances(DB, a)) = 1
        /\ ValidIssuances(DB, a)[1].quantity = 1
        /\ ValidIssuances(DB, a)[1].divisible = 0
        /\ ValidIssuances(DB, a)[1].locked = 1

\* the four flags of C6 agree between two rows
SameFlags(r1, r2) ==
    /\ r1.divisible = r2.divisible /\ r1.callable = r2.callable
    /\ r1.listed = r2.listed /\ r1.reassignable = r2.reassignable

FlagsNeverChange ==
    \A i, j \in Rows :
        IsValidRow(issuances[i]) /\ IsValidRow(issuances[j])
        /\ issuances[i].asset = issuances[j].asset
        => SameFlags(issuances[i], issuances[j])

\* the 'cannot change' problems the flags of message m earn against the
\* most recent valid issuance prev
ChangeProblems(prev, m) ==
    {"cannot change divisibility" : x \in {0} \cap {y \in {0} : (prev.divisible = 1) # m.divisible}}
    \cup {"cannot change listing flag" : x \in {0} \cap {y \in {0} : (prev.listed = 1) # m.listed}}
    \cup {"cannot change reassignable flag" :
            x \in {0} \cap {y \in {0} : (prev.reassignable = 1) # m.reassignable}}
    \cup {"cannot change callability" : x \in {0} \cap {y \in {0} : (prev.callable = 1) # m.callable}}

\* the latest call validated a reissuance one of whose four flags differs
\* from the most recent valid issuance (a step formula: the ledger before,
\* the call after)
ChangesFlag ==
    /\ raised' = "none"
    /\ last'.m.status = <<"valid">>
    /\ ValidIssuances(DB, last'.m.asset) # <<>>
    /\ ChangeProblems(ValidIssuances(DB, last'.m.asset)[
                          Len(ValidIssuances(DB, last'.m.asset))], last'.m) # {}

\* the same step, with the status the claim promises and no balance change
ChangeRejected ==
    /\ last'.status[1] = "invalid"
    /\ \A p \in ChangeProblems(ValidIssuances(DB, last'.m.asset)[
                                  Len(ValidIssuances(DB, last'.m.asset))], last'.m) :
           Contains(last'.status, p)
    /\ balances' = balances
    /\ assets' = assets

\* only divisibility differs: the message is fungible and would be valid
\* with the divisibility of the most recent valid issuance
OnlyDivisibilityDiffers ==
    /\ ChangesFlag
    /\ last'.m.fungible
    /\ validate(DB, [last'.m EXCEPT !.divisible = ~last'.m.divisible]).problems = <<>>

RowAdded == issuances' = Append(issuances, issuances'[Len(issuances')])
            /\ issuances'[Len(issuances')].status = last'.status

\* C6, as stated: the four flags never change across the valid issuances of
\* an asset; a reissuance that changes one is stored with 'cannot change
\* ...' in its status (exactly 'invalid: cannot change divisibility' when
\* only divisibility differs), its row is persisted and no balance changes.
C6_FlagChangeStored ==
    /\ []FlagsNeverChange
    /\ [][ /\ ChangesFlag => ChangeRejected /\ RowAdded
           /\ OnlyDivisibilityDiffers =>
                 last'.status = Invalid(<<"cannot change divisibility">>) ]_vars

\* C6, amended: the row is persisted unless the status also contains
\* 'integer overflow', in which case no row is written.
C6_FlagChangeStoredUnlessOverflow ==
    /\ []FlagsNeverChange
    /\ [][ /\ ChangesFlag =>
                 /\ ChangeRejected
                 /\ IF Contains(last'.status, "integer overflow")
                    THEN issuances' = issuances ELSE RowAdded
           /\ OnlyDivisibilityDiffers =>
                 last'.status = Invalid(<<"cannot change divisibility">>) ]_vars

\* a reissuance that only changed divisibility was stored as exactly that
C6_Witness ==
    /\ tx_count > 1 /\ last.stored /\ last.m.divisible /\ last.m.quantity = 1
    /\ LastRow.status = Invalid(<<"cannot change divisibility">>)
    /\ \E i \in PriorValid(Len(issuances)) : issuances[i].divisible = 0

----------------------------------------------------------------------------
(* SpecFrame: messages of both types that decode, are named and validate,  *)
(* and messages that fail at each of these stages, with the subassets and  *)
(* integer_overflow_fix changes active or not.                             *)

\* the 26 bytes of a Type 20 message with no description field at all
NoDescription20 ==
    IdBAAA \o PackBE(1, 8) \o <<1, 0>> \o PackBE(0, 4) \o PackF32(0)

FrameTxs ==
    { Send20(A1, NoAddr, IdBAAA, 1, 1, <<>>, Later),        \* issuance, reissuance
      Send20(A1, NoAddr, IdBAAA, 1, 0, <<>>, Later),        \* other divisibility
      Send20(A2, NoAddr, IdBAAA, 1, 1, <<>>, Later),        \* another address
      Send20(A1, A2, IdBAAA, 1, 1, <<>>, Later),            \* issue and transfer
      Send20(A1, NoAddr, IdBAAA, MAX_INT + 1, 1, <<>>, Later),
      Send20(A1, NoAddr, IdLow, 1, 1, <<>>, Later),         \* no such name
      Send20(A1, NoAddr, IdBAAB, 1, 16, lock, Later),       \* non-fungible, 'lock'
      SendRaw(A1, NoAddr, ID, PackShort(IdBAAB, 1, TRUE), Later),
      SendRaw(A1, NoAddr, ID, PackShort(IdBAAB, 1, TRUE) \o <<0, 0, 0>>, Later),
      SendRaw(A1, NoAddr, ID, NoDescription20, Later),
      SendRaw(A1, NoAddr, SUBASSET_ID,
              PackSubasset(IdNum1, 1, 1, <<1, 1>>, <<>>), Later),   \* 'BAAA.x'
      SendRaw(A1, NoAddr, SUBASSET_ID,
              PackSubasset(IdNum1, 1, 1, <<9>>, <<>>), Later),      \* 'B.'
      SendRaw(A1, NoAddr, SUBASSET_ID,
              PackSubasset(IdNum2, 1, 16, <<9>>, <<>>), Later),     \* group 'B.'
      SendRaw(A1, NoAddr, SUBASSET_ID, IdNum1 \o <<0, 1>>, Later),  \* 10 bytes
      SendRaw(A1, NoAddr, SUBASSET_ID,
              IdNum1 \o PackBE(1, 8) \o <<1, 5, 1>>, Later) }       \* 5 > 1 left

InitFrame ==
    InitLedger({Config("mainnet", off) :
                    off \in SUBSET {"subassets", "integer_overflow_fix"}}, Funds)

NextFrame == \E t \in FrameTxs : Parse(t, MaxTxFrame)

SpecFrame == InitFrame /\ [][NextFrame]_vars

C9_NoRaiseAfterDecode == last.unpacked => raised = "none"

\* C10: every decode failure ends in a stored row with status 'invalid:
\* could not unpack' and a normal return.
C10_DecodeFailureStored ==
    tx_count > 0 /\ ~last.unpacked =>
        /\ raised = "none"
        /\ last.stored
        /\ LastRow.tx_index = last.tx.tx_index
        /\ LastRow.status = Invalid(<<"could not unpack">>)

----------------------------------------------------------------------------
(* SpecOverflow: issuances of one asset whose quantities bring the valid   *)
(* total near, to and past MAX_INT, with integer_overflow_fix on or off.   *)

OverflowTxs ==
    { Send20(A1, d, IdBAAA, q, 1, <<>>, Later) :
        d \in {NoAddr, A2}, q \in {0, 100, MAX_INT - 10, MAX_INT + 1} }

InitOverflow ==
    InitLedger({Config("mainnet", off) : off \in SUBSET {"integer_overflow_fix"}}, Funds)

NextOverflow == \E t \in OverflowTxs : Parse(t, MaxTxOverflow)

SpecOverflow == InitOverflow /\ [][NextOverflow]_vars

\* the latest call, made with integer_overflow_fix active, validated a
\* quantity that brings the valid total of the asset above MAX_INT (a step
\* formula)
PushesTotalOver ==
    /\ raised' = "none"
    /\ last'.m.status = <<"valid">>
    /\ enabled("integer_overflow_fix", last'.tx.block_index)
    /\ SumQuantity(ValidIssuances(DB, last'.m.asset)) + last'.m.quantity > MAX_INT

\* C11, as stated: with integer_overflow_fix active, an issuance whose
\* quantity pushes the valid total above MAX_INT gets a status containing
\* 'integer overflow' and no row.
C11_TotalOverflowNotStored ==
    [][ PushesTotalOver =>
           Contains(last'.status, "integer overflow") /\ issuances' = issuances ]_vars

\* C11, amended: such an issuance gets 'total quantity overflow'; it gets
\* 'integer overflow' and no row exactly when its own quantity exceeds
\* MAX_INT, and otherwise its row is stored with the invalid status.
C11_QuantityOverflowNotStored ==
    [][ PushesTotalOver =>
           /\ Contains(last'.status, "total quantity overflow")
           /\ IF last'.m.quantity > MAX_INT
              THEN Contains(last'.status, "integer overflow") /\ issuances' = issuances
              ELSE ~Contains(last'.status, "integer overflow") /\ RowAdded ]_vars

\* on a valid total of MAX_INT - 10, a quantity of 100 was stored as a
\* total quantity overflow
C11_Witness ==
    /\ enabled("integer_overflow_fix", last.tx.block_index)
    /\ last.m.quantity = 100
    /\ SumQuantity(ValidIssuances(DB, BAAA)) = MAX_INT - 10
    /\ last.stored
    /\ LastRow.tx_index = last.tx.tx_index
    /\ LastRow.status = Invalid(<<"total quantity overflow">>)

----------------------------------------------------------------------------
(* SpecFee: first issuances and reissuances at the heights where the fee   *)
(* rules change, of a short name, a 13-character or numeric name, a        *)
(* fungible sub-asset and a non-fungible one, on mainnet and testnet, with *)
(* numeric_asset_names, subassets and fee_revision_2021_1q active or not.  *)

FeeHeights == {281236, 281237, 286000, 291700, 310000, 315000}

FeeTxs ==
    { SendShort(A1, NoAddr, id, q, TRUE, h) :
        id \in {IdBAAA, IdNum1}, q \in {0, 1}, h \in FeeHeights }
    \cup { Send21(A1, NoAddr, IdNum2, 1, f, <<1, 1>>, <<>>, h) :
             f \in {1, 16}, h \in FeeHeights }
    \cup { Send20(A1, NoAddr, IdB6, 1000, 1, <<>>, 286100) }

InitFee ==
    InitLedger({Config(n, off) :
                    n \in {"mainnet", "testnet"},
                    off \in SUBSET {"numeric_asset_names", "subassets",
                                    "fee_revision_2021_1q"}}, Funds)

NextFee == \E t \in FeeTxs : Parse(t, MaxTxFee)

SpecFee == InitFee /\ [][NextFee]_vars

Mainnet == ~TESTNET /\ ~REGTEST

\* the fee schedule as the specification lists it, before any revision
ListedFee(m, reissuance) ==
    IF m.quantity = 0 /\ m.block_index < 315000 /\ Mainnet THEN 0
    ELSE IF reissuance /\ (m.block_index >= 310000 \/ ~Mainnet) THEN 0
    ELSE IF enabled("numeric_asset_names", m.block_index)
    THEN IF m.subasset_longname # NoName
         THEN IF m.fungible /\ enabled("subassets", m.block_index)
              THEN UNIT \div 4 ELSE UNIT \div 400
         ELSE IF Len(m.asset) >= 13 THEN 0 ELSE UNIT \div 2
    ELSE IF m.block_index >= 291700 THEN UNIT \div 2
    ELSE IF m.block_index >= 286000 THEN 5 * UNIT
    ELSE IF m.block_index > 281236 THEN 5
    ELSE 0

\* the same schedule with its block-height rows read as the code reads them
\* on testnet and regtest, where the first of them always applies
NetworkFee(m, reissuance) ==
    IF ~enabled("numeric_asset_names", m.block_index) /\ ~Mainnet /\ ~reissuance
    THEN UNIT \div 2
    ELSE ListedFee(m, reissuance)

\* the latest call ran validate and stored its row (a step formula), so
\* that the fee validate returned is the fee_paid of the new row
FeeReturned == raised' = "none" /\ last'.m.status = <<"valid">> /\ last'.stored

\* whether the asset of the latest call had a valid issuance before it
WasIssued == ValidIssuances(DB, last'.m.asset) # <<>>

NewRow == issuances'[Len(issuances')]

\* C12, as stated: the fee validate returns is the listed schedule (the
\* revision of the fee, which the list leaves out, not being active).
C12_FeeIsListed ==
    [][ FeeReturned /\ ~enabled("fee_revision_2021_1q", last'.tx.block_index) =>
            NewRow.fee_paid = ListedFee(last'.m, WasIssued) ]_vars

\* C12, amended: on testnet and regtest the block-height rows give
\* 0.5*UNIT at every height; and where fee_revision_2021_1q and
\* numeric_asset_names are both active the fee is 100 times the schedule.
C12_FeeIsListedPerNetwork ==
    [][ FeeReturned =>
            NewRow.fee_paid =
                NetworkFee(last'.m, WasIssued)
                * (IF enabled("fee_revision_2021_1q", last'.tx.block_index)
                      /\ enabled("numeric_asset_names", last'.tx.block_index)
                   THEN 100 ELSE 1) ]_vars

\* a reissuance below height 310000 on mainnet paid the 5*UNIT of its era
C12_Witness ==
    /\ Mainnet /\ last.reissuance /\ last.stored
    /\ last.tx.block_index = 286000
    /\ ~enabled("numeric_asset_names", 286000)
    /\ LastRow.tx_index = last.tx.tx_index
    /\ LastRow.fee_paid = 5 * UNIT

\* the latest call returned a fee while fee_revision_2021_1q was active
RevisedFeeReturned ==
    FeeReturned /\ enabled("fee_revision_2021_1q", last'.tx.block_index)

\* C13, as stated: where fee_revision_2021_1q is active the fee is 100
\* times the schedule fee on every row of the schedule, the block-height
\* rows included.
C13_RevisionOnEveryRow ==
    [][ RevisedFeeReturned =>
            NewRow.fee_paid = 100 * NetworkFee(last'.m, WasIssued) ]_vars

\* C13, amended: the fee is 100 times the schedule fee on the rows of
\* numeric_asset_names being active, and the plain schedule fee on the
\* block-height rows.
C13_RevisionOnNumericRows ==
    [][ RevisedFeeReturned =>
            IF enabled("numeric_asset_names", last'.tx.block_index)
            THEN NewRow.fee_paid = 100 * NetworkFee(last'.m, WasIssued)
            ELSE NewRow.fee_paid = NetworkFee(last'.m, WasIssued) ]_vars

\* with both changes active a first issuance of a short name paid 50*UNIT
C13_Witness ==
    /\ last.stored /\ ~last.reissuance
    /\ enabled("fee_revision_2021_1q", last.tx.block_index)
    /\ enabled("numeric_asset_names", last.tx.block_index)
    /\ LastRow.tx_index = last.tx.tx_index
    /\ LastRow.status = <<"valid">>
    /\ LastRow.fee_paid = 50 * UNIT
    /\ balances[<<A1, XCP>>] = Funds - 50 * UNIT

\* the latest call is the scenario of C14: on mainnet at height 286100,
\* before numeric_asset_names, a first issuance of 1000 divisible fungible
\* units of a 6-character name by a source holding at least 5*UNIT
FirstIssuance286100 ==
    /\ raised' = "none"
    /\ Mainnet /\ ~enabled("numeric_asset_names", 286100)
    /\ last'.tx.block_index = 286100
    /\ last'.m.asset = B6 /\ last'.m.quantity = 1000
    /\ last'.m.divisible /\ last'.m.fungible
    /\ ~WasIssued
    /\ balances[<<last'.tx.source, XCP>>] >= 5 * UNIT

\* what the scenario does besides charging the fee: the row is valid, one
\* assets row is inserted and the source gains 1000 units of the asset
IssuedAndCredited ==
    /\ last'.status = <<"valid">>
    /\ NewRow.status = <<"valid">> /\ NewRow.tx_index = last'.tx.tx_index
    /\ Len(assets') = Len(assets) + 1
    /\ assets'[Len(assets')].asset_name = B6
    /\ SubSeq(assets', 1, Len(assets)) = assets
    /\ <<A1, B6>> \notin DOMAIN balances
    /\ <<A1, B6>> \in DOMAIN balances'
    /\ balances'[<<A1, B6>>] = 1000

\* C14, as stated: the scenario is charged 0.5*UNIT.
C14_HalfUnitAt286100 ==
    [][ FirstIssuance286100 =>
            /\ NewRow.fee_paid = UNIT \div 2
            /\ balances'[<<A1, XCP>>] = balances[<<A1, XCP>>] - UNIT \div 2
            /\ IssuedAndCredited ]_vars

\* C14, amended: the scenario is charged 5*UNIT, the fee of heights
\* 286000 to 291699.
C14_FiveUnitsAt286100 ==
    [][ FirstIssuance286100 =>
            /\ NewRow.fee_paid = 5 * UNIT
            /\ balances'[<<A1, XCP>>] = balances[<<A1, XCP>>] - 5 * UNIT
            /\ IssuedAndCredited ]_vars

\* the scenario has run
C14_Witness ==
    /\ Mainnet /\ ~enabled("numeric_asset_names", 286100)
    /\ last.tx.block_index = 286100 /\ last.m.asset = B6 /\ ~last.reissuance
    /\ last.debit = 5 * UNIT /\ last.credit = 1000
    /\ LastRow.status = <<"valid">> /\ LastRow.fee_paid = 5 * UNIT
    /\ \E i \in 1..Len(assets) : assets[i].asset_name = B6
    /\ balances[<<A1, B6>>] = 1000

----------------------------------------------------------------------------
(* SpecFunds: first issuances and reissuances by an address that can pay   *)
(* two fees of 0.5*UNIT and by one that holds nothing, with                *)
(* fee_revision_2021_1q active or not.                                     *)

FundsTxs ==
    { Send20(s, NoAddr, id, q, 1, <<>>, Later) :
        s \in {A1, A2}, id \in {IdBAAA, IdBAAB, IdB6, IdXCP}, q \in {0, 1} }

InitFunds ==
    InitLedger({Config("mainnet", off) : off \in SUBSET {"fee_revision_2021_1q"}}, UNIT)

NextFunds == \E t \in FundsTxs : Parse(t, MaxTxFunds)

SpecFunds == InitFunds /\ [][NextFunds]_vars

\* no balance of the native protocol asset is below zero
NativeNonNegative ==
    \A k \in DOMAIN balances : k[2] = XCP => balances[k] >= 0

\* the native balance the source of the latest call held before it
HeldBefore ==
    IF <<last'.tx.source, XCP>> \in DOMAIN balances
    THEN balances[<<last'.tx.source, XCP>>] ELSE 0

\* C15: an issuance with a non-zero fee is valid only if the source holds
\* at least the fee; the debit never takes a native balance below zero, and
\* the amount debited for a valid issuance is the fee_paid of its row.
C15_FeeWithinFunds ==
    /\ []NativeNonNegative
    /\ [][ raised' = "none" /\ last'.status = <<"valid">> =>
              /\ NewRow.tx_index = last'.tx.tx_index
              /\ NewRow.fee_paid # 0 => HeldBefore >= NewRow.fee_paid
              /\ last'.debit = NewRow.fee_paid
              /\ NewRow.fee_paid # 0 =>
                    balances'[<<last'.tx.source, XCP>>] = HeldBefore - NewRow.fee_paid
              /\ \A k \in DOMAIN balances :
                    k # <<last'.tx.source, XCP>> /\ k[2] = XCP =>
                        balances'[k] = balances[k] ]_vars

\* two fees have emptied the source's native balance and a third first
\* issuance was turned away for insufficient funds
C15_Witness ==
    /\ balances[<<A1, XCP>>] = 0
    /\ tx_count = 3 /\ last.tx.source = A1
    /\ last.status = Invalid(<<"insufficient funds">>)
    /\ LastRow.fee_paid = UNIT \div 2 /\ last.debit = 0

----------------------------------------------------------------------------
(* SpecLockText: issuances, reissuances and transfers of one asset whose   *)
(* descriptions are a text, 'LOCK' or 'Lock', with issuance_lock_fix       *)
(* active or not.                                                          *)

MixedLock == <<76, 111, 99, 107>>       \* 'Lock'
TextX == <<120>>                        \* 'x'

LockTextTxs ==
    { Send20(sd[1], sd[2], IdBAAA, q, 1, desc, Later) :
        sd \in {<<A1, NoAddr>>, <<A1, A2>>, <<A2, NoAddr>>},
        q \in {0, 1}, desc \in {TextX, LOCK, MixedLock} }

InitLockText ==
    InitLedger({Config("mainnet", off) : off \in SUBSET {"issuance_lock_fix"}}, Funds)

NextLockText == \E t \in LockTextTxs : Parse(t, MaxTxLockText)

SpecLockText == InitLockText /\ [][NextLockText]_vars

\* the most recent valid issuance of the asset of the latest call, before it
Previous ==
    ValidIssuances(DB, last'.m.asset)[Len(ValidIssuances(DB, last'.m.asset))]

\* the latest call is a reissuance by the current issuer, with the flags of
\* the previous valid issuance, quantity 0 and a description that is 'lock'
\* whatever its case (a step formula)
LockingReissuance ==
    /\ raised' = "none"
    /\ last'.m.status = <<"valid">>
    /\ WasIssued
    /\ Previous.issuer = last'.tx.source
    /\ last'.m.quantity = 0
    /\ Lower(last'.m.description) = LockText
    /\ ChangeProblems(Previous, last'.m) = {}
    /\ Previous.vendable = 1 /\ last'.m.vendable

\* C16: such a reissuance is stored as valid and locked, with the
\* description of the previous valid issuance; with a destination the same
\* row is a transfer to the destination.
C16_LockKeepsDescription ==
    [][ LockingReissuance =>
            /\ last'.status = <<"valid">>
            /\ RowAdded
            /\ NewRow.locked = 1
            /\ NewRow.description = Previous.description
            /\ IF last'.tx.destination # NoAddr
               THEN NewRow.transfer = 1 /\ NewRow.issuer = last'.tx.destination
               ELSE NewRow.transfer = 0 /\ NewRow.issuer = last'.tx.source ]_vars

\* 'LOCK' sent with a destination locked and transferred an asset described
\* as 'x'
C16_Witness ==
    /\ last.m.description = LOCK /\ last.tx.destination = A2 /\ last.reissuance
    /\ LastRow.tx_index = last.tx.tx_index
    /\ LastRow.status = <<"valid">>
    /\ LastRow.locked = 1 /\ LastRow.transfer = 1 /\ LastRow.issuer = A2
    /\ LastRow.description = TextX

----------------------------------------------------------------------------
(* Transfers of ownership, checked on Spec. *)

\* the latest call carries the flags of the previous valid issuance of its
\* asset, which is one that has been issued (a step formula)
KeepsFlags ==
    /\ raised' = "none"
    /\ last'.m.status = <<"valid">>
    /\ WasIssued
    /\ ChangeProblems(Previous, last'.m) = {}
    /\ Previous.vendable = 1 /\ last'.m.vendable

\* the latest call is a transfer of an existing asset by its current issuer
\* at a height from 310000, with quantity 0
TransferByIssuer ==
    /\ KeepsFlags
    /\ Previous.issuer = last'.tx.source
    /\ last'.tx.destination # NoAddr
    /\ last'.m.quantity = 0
    /\ last'.tx.block_index >= 310000

\* C17: a transfer of an existing asset by its current issuer is stored as
\* valid, with transfer = true, issuer = destination and fee_paid = 0, and
\* changes no balance; after a transfer, an issuance by any address but the
\* destination is refused as 'issued by another address', and the
\* destination's reissuance is valid.
C17_TransferHandsOver ==
    [][ /\ TransferByIssuer =>
              /\ last'.status = <<"valid">>
              /\ RowAdded
              /\ NewRow.transfer = 1
              /\ NewRow.issuer = last'.tx.destination
              /\ NewRow.fee_paid = 0
              /\ balances' = balances
        /\ KeepsFlags /\ Previous.transfer = 1
           /\ last'.tx.source # Previous.issuer =>
              /\ Contains(last'.status, "issued by another address")
              /\ balances' = balances
        /\ KeepsFlags /\ Previous.transfer = 1
           /\ last'.tx.source = Previous.issuer /\ last'.tx.destination = NoAddr
           /\ SumQuantity(ValidIssuances(DB, last'.m.asset)) + last'.m.quantity <= MAX_INT =>
              /\ last'.status = <<"valid">>
              /\ NewRow.issuer = last'.tx.source ]_vars

\* a1 issued and transferred to a2; a1's next issuance was refused and a2's
\* reissuance of one unit was valid
C17_Witness ==
    /\ Len(issuances) = 4
    /\ issuances[1].status = <<"valid">> /\ issuances[1].source = A1
    /\ issuances[2].status = <<"valid">> /\ issuances[2].source = A1
    /\ issuances[2].transfer = 1 /\ issuances[2].issuer = A2
    /\ issuances[2].fee_paid = 0 /\ issuances[2].quantity = 0
    /\ issuances[3].source = A1
    /\ issuances[3].status = Invalid(<<"issued by another address">>)
    /\ issuances[4].source = A2 /\ issuances[4].status = <<"valid">>
    /\ issuances[4].quantity = 1 /\ issuances[4].transfer = 0

----------------------------------------------------------------------------
(* The assets table, checked on SpecFrame. *)

\* the assets rows of a name
AssetRowsOf(name) == {i \in 1..Len(assets) : assets[i].asset_name = name}

\* the names that appear in either table
KnownNames ==
    {assets[i].asset_name : i \in 1..Len(assets)}
    \cup {issuances[j].asset : j \in Rows}

\* C18: an asset has exactly one assets row if it has a valid issuance and
\* none otherwise, and parse leaves the assets rows and issuance rows it
\* finds as they are.
C18_OneAssetRowPerIssuedName ==
    /\ [](\A name \in KnownNames :
             Cardinality(AssetRowsOf(name)) =
                 IF ValidIssuances(DB, name) # <<>> THEN 1 ELSE 0)
    /\ [][ /\ Len(assets') >= Len(assets)
           /\ SubSeq(assets', 1, Len(assets)) = assets
           /\ Len(issuances') >= Len(issuances)
           /\ SubSeq(issuances', 1, Len(issuances)) = issuances ]_vars

----------------------------------------------------------------------------
(* SpecSub: two parents and, under two numeric names, Type 21 issuances of *)
(* the sub-assets 'BAAA.x' and 'BAAB.y' and of the group 'GRP1', fungible  *)
(* and not, with non_fungible_assets active or not.                        *)

SubTxs ==
    { Send20(A1, NoAddr, id, 1, 1, <<>>, Later) : id \in {IdBAAA, IdBAAB} }
    \cup { Send21(A1, NoAddr, id, 1, f, name, <<>>, Later) :
             id \in {IdNum1, IdNum2}, f \in {0, 16},
             name \in {<<1, 1>>, <<1, 2>>, <<3>>} }

InitSub ==
    InitLedger({Config("mainnet", off) : off \in SUBSET {"non_fungible_assets"}}, Funds)

NextSub == \E t \in SubTxs : Parse(t, MaxTxSub)

SpecSub == InitSub /\ [][NextSub]_vars

\* no two assets rows have the same long-name, NULL apart
UniqueLongnames ==
    \A i, j \in 1..Len(assets) :
        i # j /\ assets[i].asset_longname # NoName
        => assets[i].asset_longname # assets[j].asset_longname

\* the latest call is a first issuance of a fungible sub-asset whose
\* long-name an assets row already has (a step formula)
RegisteredLongname ==
    /\ raised' = "none"
    /\ last'.m.status = <<"valid">>
    /\ last'.m.fungible
    /\ last'.m.subasset_longname # NoName
    /\ ~WasIssued
    /\ \E i \in 1..Len(assets) : assets[i].asset_longname = last'.m.subasset_longname

\* C19: no two assets rows share a non-null asset_longname; a first
\* issuance of a fungible sub-asset whose long-name is registered is
\* refused with 'subasset already exists'.
C19_LongnameRegisteredOnce ==
    /\ []UniqueLongnames
    /\ [][ RegisteredLongname =>
              /\ Contains(last'.status, "subasset already exists")
              /\ assets' = assets ]_vars

\* 'BAAA.x' is registered under one numeric name and its issuance under
\* the other was refused
C19_Witness ==
    /\ \E i \in 1..Len(assets) :
          assets[i].asset_longname = LongX /\ assets[i].asset_name = Num1
    /\ last.m.asset = Num2 /\ last.m.subasset_longname = LongX
    /\ last.status = Invalid(<<"subasset already exists">>)
    /\ LastRow.status = last.status /\ LastRow.tx_index = last.tx.tx_index

----------------------------------------------------------------------------
(* SpecCodec: the flags byte compose packs for each of the 32 combinations *)
(* of the five booleans, sent in a Type 20 message of the long layout and  *)
(* in a Type 21 message.                                                   *)

CodecTxs ==
    { Send20(A1, NoAddr, IdBAAA, 1, PackFlags(d, l, r, v, f), <<>>, Later) :
        d \in BOOLEAN, l \in BOOLEAN, r \in BOOLEAN, v \in BOOLEAN, f \in BOOLEAN }
    \cup { Send21(A1, NoAddr, IdNum1, 1, PackFlags(d, l, r, v, f), <<1, 1>>, <<>>, Later) :
             d \in BOOLEAN, l \in BOOLEAN, r \in BOOLEAN, v \in BOOLEAN, f \in BOOLEAN }

InitCodec ==
    InitLedger({Config("mainnet", off) : off \in SUBSET {"non_fungible_assets"}}, Funds)

NextCodec == \E t \in CodecTxs : Parse(t, MaxTxCodec)

SpecCodec == InitCodec /\ [][NextCodec]_vars

\* bit k of a byte, by arithmetic
BitSet(byte, k) == (byte \div Pow(2, k)) % 2 = 1

\* C20: the flags byte compose writes has bit 0 set iff divisible, bit 1
\* iff not listed, bit 2 iff not reassignable, bit 3 iff not vendable and
\* bit 4 iff not fungible, and parse reads the same five booleans back from
\* it in the long Type 20 layout and in the Type 21 layout.
C20_FlagsRoundTrip ==
    \A d \in BOOLEAN, l \in BOOLEAN, r \in BOOLEAN, v \in BOOLEAN, f \in BOOLEAN :
        /\ PackFlags(d, l, r, v, f) \in 0..31
        /\ BitSet(PackFlags(d, l, r, v, f), 0) = d
        /\ BitSet(PackFlags(d, l, r, v, f), 1) = ~l
        /\ BitSet(PackFlags(d, l, r, v, f), 2) = ~r
        /\ BitSet(PackFlags(d, l, r, v, f), 3) = ~v
        /\ BitSet(PackFlags(d, l, r, v, f), 4) = ~f
        /\ last.unpacked /\ last.layout \in {"FORMAT_2", "SUBASSET"}
           /\ last.flags = PackFlags(d, l, r, v, f) =>
              /\ last.m.divisible = d
              /\ last.m.listed = l
              /\ last.m.reassignable = r
              /\ last.m.vendable = v
              /\ last.m.fungible = f

\* a Type 21 message with flags 27 was read as divisible, delisted,
\* reassignable, not vendable and non-fungible
C20_Witness ==
    /\ last.unpacked /\ last.layout = "SUBASSET"
    /\ last.flags = PackFlags(TRUE, FALSE, TRUE, FALSE, FALSE) /\ last.flags = 27
    /\ last.m.divisible /\ ~last.m.listed /\ last.m.reassignable
    /\ ~last.m.vendable /\ ~last.m.fungible

----------------------------------------------------------------------------
(* SpecText: Type 20 messages as compose packs them, with descriptions of  *)
(* 0, 1, 41, 42, 43 and 44 bytes, below and above the height that lifts    *)
(* the 42-byte limit.                                                      *)

\* a description of n bytes, 'aaa...'
Text(n) == [i \in 1..n |-> 97]

TextLengths == {0, 1, 41, 42, 43, 44}

TextTxs ==
    { Send20(A1, NoAddr, id, q, 1, Text(n), h) :
        id \in {IdBAAA, IdBAAB}, q \in {0, 1}, n \in TextLengths, h \in {310000, Later} }

InitText == InitLedger({Config("mainnet", {})}, Funds)

NextText == \E t \in TextTxs : Parse(t, MaxTxText)

SpecText == InitText /\ [][NextText]_vars

\* the description field of the latest Type 20 message of the long layout
DescriptionField == SubSeq(last.message, LENGTH_2 + 1, last.length)

\* C21: the description of a Type 20 long message that compose packed is
\* the description parse reads from it, for every length: 41, 42 and 43
\* bytes included.
C21_DescriptionRoundTrip ==
    \A n \in TextLengths :
        /\ last.unpacked /\ last.layout = "FORMAT_2"
        /\ DescriptionField = PackDescription(Text(n))
        => last.m.description = Text(n)

----------------------------------------------------------------------------
(* Determinism of parse, checked on SpecSub. *)

\* what a call of parse leaves behind: the four tables, the exception that
\* left it and the record of the call
Ledger == <<issuances, assets, balances, assetgroups, raised, last>>

\* the latest call was given the block_index, source, destination and
\* message of transaction t (its tx_index and tx_hash follow from the number
\* of transactions parsed before it); a step formula
GivenNow(t) ==
    /\ last'.tx.block_index = t.block_index
    /\ last'.tx.source = t.source
    /\ last'.tx.destination = t.destination
    /\ last'.message_type_id = t.message_type_id
    /\ last'.message = t.message

----------------------------------------------------------------------------
(* The lock before issuance_lock_fix, checked on SpecLock. *)

\* the latest call validated a reissuance with a non-zero quantity while
\* issuance_lock_fix was not active (a step formula)
ReissuesUnitsBeforeFix ==
    /\ raised' = "none"
    /\ last'.m.status = <<"valid">>
    /\ WasIssued
    /\ ~enabled("issuance_lock_fix", last'.tx.block_index)
    /\ last'.m.quantity # 0

\* C23: with issuance_lock_fix disabled, a reissuance with a non-zero
\* quantity is refused with 'locked asset and non-zero quantity' if and
\* only if the most recent valid issuance of the asset is locked, whatever
\* the earlier ones are.
C23_OnlyLastLockCounts ==
    [][ ReissuesUnitsBeforeFix =>
           (Contains(last'.status, "locked asset and non-zero quantity")
               <=> Previous.locked = 1) ]_vars

\* after a lock and a valid issuance of quantity 0 that is stored unlocked,
\* an issuance of one unit was valid again
C23_Witness ==
    /\ ~enabled("issuance_lock_fix", Later)
    /\ \E i, j, k \in Rows :
          /\ i < j /\ j < k
          /\ IsValidRow(issuances[i]) /\ issuances[i].locked = 1
          /\ IsValidRow(issuances[j]) /\ issuances[j].locked = 0
          /\ issuances[j].quantity = 0 /\ issuances[j].transfer = 0
          /\ PriorValid(k) # {} /\ Max(PriorValid(k)) = j
          /\ IsValidRow(issuances[k]) /\ issuances[k].quantity = 1
          /\ issuances[k].asset = issuances[i].asset
          /\ issuances[j].asset = issuances[i].asset

----------------------------------------------------------------------------
(* SpecVend: issuances and reissuances of one asset by its owner with the  *)
(* vendable flag set and cleared, while a dispenser is open on the asset   *)
(* or not, with enable_vendable_fix active or not.                         *)

\* a transaction carrying a Type 20 message, parsed while
\* dispenser.is_opened(db, asset) answers opened
SendDispensing(source, asset_id, quantity, flags, opened, block_index) ==
    [source |-> source, destination |-> NoAddr, block_index |-> block_index,
     message_type_id |-> ID,
     message |-> PackIssuance(asset_id, quantity, flags, FALSE, 0, 0, <<>>),
     ext |-> [assetgroup_problems |-> <<>>, dispenser_opened |-> opened]]

VendTxs ==
    { SendDispensing(A1, IdBAAA, q, f, opened, Later) :
        q \in {0, 1}, f \in {0, 8}, opened \in BOOLEAN }

InitVend ==
    InitLedger({Config("mainnet", off) : off \in SUBSET {"enable_vendable_fix"}}, Funds)

NextVend == \E t \in VendTxs : Parse(t, MaxTxVend)

SpecVend == InitVend /\ [][NextVend]_vars

\* no valid issuance of an asset is vendable after one that is not
VendableNeverSet ==
    \A j \in Rows : \A i \in PriorValid(j) :
        IsValidRow(issuances[j]) /\ issuances[i].vendable = 0
        => issuances[j].vendable = 0

\* where enable_vendable_fix is active, a valid issuance has the vendable
\* flag of the valid issuances before it
VendableFixed ==
    \A j \in Rows : \A i \in PriorValid(j) :
        IsValidRow(issuances[j])
        /\ enabled("enable_vendable_fix", issuances[j].block_index)
        => issuances[j].vendable = issuances[i].vendable

\* the latest call validated a reissuance that clears the vendable flag of
\* the most recent valid issuance (a step formula)
ClearsVendable ==
    /\ raised' = "none"
    /\ last'.m.status = <<"valid">>
    /\ WasIssued
    /\ Previous.vendable = 1
    /\ ~last'.m.vendable

\* C24: across the valid issuances of an asset vendable never goes from
\* false to true, and with enable_vendable_fix active it never changes;
\* with the fix inactive a reissuance that clears it is refused with
\* 'Cannot change vendable flag because the asset is dispending' while a
\* dispenser is open on the asset, so that it is cleared only when none is.
C24_VendableOneWay ==
    /\ []VendableNeverSet
    /\ []VendableFixed
    /\ [][ ClearsVendable /\ ~enabled("enable_vendable_fix", last'.tx.block_index) =>
              /\ last'.m.dispenser_opened =>
                    Contains(last'.status,
                             "Cannot change vendable flag because the asset is dispending")
              /\ last'.status = <<"valid">> =>
                    ~last'.m.dispenser_opened /\ NewRow.vendable = 0 ]_vars

\* with the fix inactive, clearing the flag was refused while a dispenser
\* was open and valid once it was closed, and setting it again was refused
C24_Witness ==
    /\ ~enabled("enable_vendable_fix", Later)
    /\ Len(issuances) = 4
    /\ IsValidRow(issuances[1]) /\ issuances[1].vendable = 1
    /\ issuances[2].status =
          Invalid(<<"Cannot change vendable flag because the asset is dispending">>)
    /\ IsValidRow(issuances[3]) /\ issuances[3].vendable = 0
    /\ issuances[4].vendable = 1
    /\ issuances[4].status = Invalid(<<"Cannot change vendable flag">>)

----------------------------------------------------------------------------
(* SpecCall: issuances and reissuances of one asset by its owner, callable *)
(* and not, with call dates 0, 100 and 200 and call prices 0 and 1.0, at   *)
(* heights below 310000, between 310000 and 312500, and past 312500.       *)

\* a transaction carrying a Type 20 message with the given call fields
SendCall(source, asset_id, quantity, callable, call_date, call_price, block_index) ==
    SendRaw(source, NoAddr, ID,
            PackIssuance(asset_id, quantity, 1, callable, call_date, call_price, <<>>),
            block_index)

CallHeights == {300000, 311000, Later}

CallTxs ==
    { SendCall(A1, IdBAAA, 1, c, d, p, h) :
        c \in BOOLEAN, d \in {0, 100, 200}, p \in {0, 1000000}, h \in CallHeights }

InitCall == InitLedger({Config("mainnet", {})}, Funds)

NextCall == \E t \in CallTxs : Parse(t, MaxTxCall)

SpecCall == InitCall /\ [][NextCall]_vars

\* the latest call stored a valid reissuance (a step formula)
ValidReissuance ==
    /\ raised' = "none"
    /\ WasIssued
    /\ last'.status = <<"valid">>
    /\ RowAdded

\* C25: a valid reissuance stores a call_price not below that of the
\* previous valid issuance, and a call_date not below the previous one
\* unless the issuance is not callable and its call fields are zeroed from
\* block 312500; the call_date of a callable asset is never lowered.
C25_CallFieldsMonotone ==
    [][ ValidReissuance =>
           /\ NewRow.call_price >= Previous.call_price
           /\ \/ NewRow.call_date >= Previous.call_date
              \/ ZeroCallFields(last'.m.callable, last'.tx.block_index)
           /\ Previous.callable = 1 => NewRow.call_date >= Previous.call_date ]_vars

----------------------------------------------------------------------------
(* SpecParent: the parent 'BAAA' issued, reissued and transferred between  *)
(* two funded addresses, and Type 21 first issuances by both of the        *)
(* sub-assets 'BAAA.x' and 'BAAB.y' ('BAAB' is never issued).              *)

ParentTxs ==
    { Send20(A1, NoAddr, IdBAAA, 1, 1, <<>>, Later),
      Send20(A1, A2, IdBAAA, 0, 1, <<>>, Later),
      Send20(A2, A1, IdBAAA, 0, 1, <<>>, Later) }
    \cup { Send21(s, NoAddr, id, 1, 1, name, <<>>, Later) :
             s \in {A1, A2}, id \in {IdNum1, IdNum2}, name \in {<<1, 1>>, <<1, 2>>} }

\* the ledger after initialise(db), with a native-asset balance for both
\* addresses
InitParent ==
    /\ issuances = <<>>
    /\ assets = <<>>
    /\ balances = [k \in {<<A1, XCP>>, <<A2, XCP>>} |-> Funds]
    /\ assetgroups = <<>>
    /\ cfg = Config("mainnet", {})
    /\ block = 0
    /\ tx_count = 0
    /\ raised = "none"
    /\ last = NoLast

NextParent == \E t \in ParentTxs : Parse(t, MaxTxParent)

SpecParent == InitParent /\ [][NextParent]_vars

\* the latest call validated a first issuance of a fungible sub-asset (a
\* step formula)
FirstSubasset ==
    /\ raised' = "none"
    /\ last'.m.status = <<"valid">>
    /\ last'.m.fungible
    /\ last'.m.subasset_longname # NoName
    /\ ~WasIssued

\* the valid issuances of the parent of the latest call's sub-asset, before
\* the call
ParentIssuances == ValidIssuances(DB, last'.m.subasset_parent)

\* C26: a first issuance of a fungible sub-asset whose parent has no valid
\* issuance is refused with 'parent asset not found', one whose parent was
\* last issued to another address with 'parent asset owned by another
\* address'; a valid one comes from the issuer of the parent's most recent
\* valid issuance.
C26_ParentOwnerIssuesSubassets ==
    [][ FirstSubasset =>
           /\ ParentIssuances = <<>> =>
                 Contains(last'.status, "parent asset not found")
           /\ ParentIssuances # <<>>
              /\ ParentIssuances[Len(ParentIssuances)].issuer # last'.tx.source =>
                 Contains(last'.status, "parent asset owned by another address")
           /\ last'.status = <<"valid">> =>
                 /\ ParentIssuances # <<>>
                 /\ ParentIssuances[Len(ParentIssuances)].issuer = last'.tx.source ]_vars

\* a1 issued 'BAAA' and transferred it to a2; a1's 'BAAA.x' was refused
\* and a2's was valid
C26_Witness ==
    /\ Len(issuances) = 4
    /\ IsValidRow(issuances[1]) /\ issuances[1].asset = BAAA /\ issuances[1].issuer = A1
    /\ IsValidRow(issuances[2]) /\ issuances[2].asset = BAAA
    /\ issuances[2].transfer = 1 /\ issuances[2].issuer = A2
    /\ issuances[3].source = A1 /\ issuances[3].asset_longname = LongX
    /\ issuances[3].status = Invalid(<<"parent asset owned by another address">>)
    /\ issuances[4].source = A2 /\ issuances[4].asset_longname = LongX
    /\ IsValidRow(issuances[4])

----------------------------------------------------------------------------
(* SpecLayout: Type 20 messages of 16, 17, 20, 26, 27 and 28 bytes at the  *)
(* last height of the short layout, the first of the long one and a later  *)
(* one, on mainnet and on testnet.                                         *)

LayoutHeights == {283271, 283272, Later}

LayoutTxs ==
    { SendRaw(A1, NoAddr, ID, message, h) :
        message \in { SubSeq(PackShort(IdBAAA, 1, TRUE), 1, 16),
                      PackShort(IdBAAA, 1, TRUE),
                      PackShort(IdBAAA, 1, TRUE) \o <<0, 0, 0>>,
                      NoDescription20,
                      PackIssuance(IdBAAA, 1, 1, FALSE, 0, 0, <<>>),
                      PackIssuance(IdBAAA, 1, 1, FALSE, 0, 0, TextX) },
        h \in LayoutHeights }

InitLayout == InitLedger({Config(network, {}) : network \in {"mainnet", "testnet"}}, Funds)

NextLayout == \E t \in LayoutTxs : Parse(t, MaxTxLayout)

SpecLayout == InitLayout /\ [][NextLayout]_vars

\* the latest call decoded a Type 20 message in the 17-byte layout
ReadShort == last.message_type_id = ID /\ last.unpacked /\ last.layout = "FORMAT_1"

\* C27, as stated: a Type 20 message is decoded in the 17-byte layout only
\* at a block below 283272 on mainnet.
C27_ShortLayoutOnlyBeforeFork ==
    ReadShort => last.tx.block_index < 283272 /\ Mainnet

\* C27, amended: the long layout is used from block 283272 (at every height
\* on testnet and regtest) for the messages of at least 26 bytes; a Type 20
\* message of exactly 17 bytes is decoded in the 17-byte layout at every
\* height and on every network, and a message of another length that is
\* not read in the long layout does not unpack.
C27_ShortLayoutByLength ==
    last.message_type_id = ID =>
        /\ last.layout = "FORMAT_2" <=>
              (last.tx.block_index > 283271 \/ ~Mainnet) /\ last.length >= LENGTH_2
        /\ ReadShort <=> last.length = LENGTH_1
        /\ last.layout = "FORMAT_1" /\ last.length # LENGTH_1 =>
              /\ raised = "none"
              /\ last.status = Invalid(<<"could not unpack">>)

\* a 17-byte message was decoded and its issuance stored as valid long
\* after block 283272
C27_Witness ==
    /\ ReadShort /\ Mainnet /\ last.tx.block_index = Later /\ last.length = LENGTH_1
    /\ last.status = <<"valid">> /\ LastRow.tx_index = last.tx.tx_index
    /\ LastRow.asset = BAAA /\ LastRow.quantity = 1 /\ LastRow.description = <<>>

----------------------------------------------------------------------------
(* The calls of assetgroup.create, checked on SpecFrame. *)

\* C28: parse calls assetgroup.create only for a message that decoded as
\* non-fungible (bit 4 of its flags byte set), never for a fungible one nor
\* for one that did not decode.
C28_GroupOnlyForNonFungible ==
    last.created =>
        /\ last.unpacked
        /\ ~last.m.fungible
        /\ BitSet(last.flags, 4)
        /\ assetgroups # <<>>
        /\ assetgroups[Len(assetgroups)].tx_index = last.tx.tx_index

----------------------------------------------------------------------------
(* SpecFirst: first issuances and reissuances of one asset, fungible and   *)
(* not, with and without a destination, described as nothing, 'lock' or    *)
(* 'Lock'.                                                                 *)

FirstTxs ==
    { Send20(A1, d, IdBAAA, q, f, desc, Later) :
        d \in {NoAddr, A2}, q \in {0, 1}, f \in {0, 16}, desc \in {<<>>, lock, MixedLock} }

InitFirst == InitLedger({Config("mainnet", {})}, Funds)

NextFirst == \E t \in FirstTxs : Parse(t, MaxTxFirst)

SpecFirst == InitFirst /\ [][NextFirst]_vars

\* the earliest valid issuance of an asset is no transfer, is issued to its
\* source, and is locked only if it is not fungible
FirstRowsPlain ==
    \A j \in Rows :
        IsValidRow(issuances[j]) /\ PriorValid(j) = {} =>
            /\ issuances[j].transfer = 0
            /\ issuances[j].issuer = issuances[j].source
            /\ issuances[j].locked = 1 => issuances[j].fungible = 0

\* the latest call validated a message for an asset without a valid
\* issuance (a step formula)
FirstIssuance ==
    /\ last'.m.status = <<"valid">>
    /\ ~WasIssued

\* C29: a first issuance with a destination is refused with 'cannot
\* transfer a non-existent asset' and a fungible one described as 'lock',
\* in any case, with 'cannot lock a non-existent asset'; the earliest valid
\* issuance of an asset has transfer = false and issuer = source, and is
\* locked only if it is non-fungible.
C29_FirstIssuancePlain ==
    /\ []FirstRowsPlain
    /\ [][ FirstIssuance =>
              /\ last'.tx.destination # NoAddr =>
                    Contains(last'.status, "cannot transfer a non-existent asset")
              /\ last'.m.fungible /\ Lower(last'.m.description) = LockText =>
                    Contains(last'.status, "cannot lock a non-existent asset") ]_vars

\* a first issuance to a destination and one described as 'Lock' were
\* refused, and a non-fungible first issuance was stored valid and locked
C29_Witness ==
    /\ Len(issuances) = 3
    /\ issuances[1].status = Invalid(<<"cannot transfer a non-existent asset">>)
    /\ issuances[1].transfer = 1
    /\ issuances[2].description = MixedLock
    /\ issuances[2].status = Invalid(<<"cannot lock a non-existent asset">>)
    /\ IsValidRow(issuances[3]) /\ issuances[3].fungible = 0
    /\ issuances[3].locked = 1 /\ issuances[3].transfer = 0
    /\ issuances[3].issuer = issuances[3].source

----------------------------------------------------------------------------
(* SpecNative: issuances, reissuances and transfers, by two addresses, of  *)
(* the asset ids 0 and 1, which name the native coin and the native        *)
(* protocol asset, and of an ordinary asset.                               *)

NativeTxs ==
    { Send20(s, d, id, q, 1, <<>>, Later) :
        s \in {A1, A2}, d \in {NoAddr, A2}, id \in {IdBTC, IdXCP, IdBAAA}, q \in {0, 1} }

InitNative == InitLedger({Config("mainnet", {})}, Funds)

NextNative == \E t \in NativeTxs : Parse(t, MaxTxNative)

SpecNative == InitNative /\ [][NextNative]_vars

RECURSIVE SumBalances(_, _)
\* the sum of the balance rows of the given keys
SumBalances(bal, keys) ==
    IF keys = {} THEN 0
    ELSE SumBalances(bal, keys \ {CHOOSE k \in keys : TRUE})
         + bal[CHOOSE k \in keys : TRUE]

\* the native protocol asset held by all addresses together
NativeTotal(bal) == SumBalances(bal, {k \in DOMAIN bal : k[2] = XCP})

\* no issuance of a native symbol is stored as valid
NoNativeIssuance ==
    \A j \in Rows :
        issuances[j].asset \in {BTC, XCP} =>
            /\ ~IsValidRow(issuances[j])
            /\ Contains(issuances[j].status, "cannot issue BTC or XCP")

\* C30: no issuance of BTC or XCP is ever stored as valid (its status has
\* 'cannot issue BTC or XCP'); parse credits neither, and no call of parse
\* raises the native protocol asset held by all addresses together.
C30_NativeNeverIssued ==
    /\ []NoNativeIssuance
    /\ [][ /\ last'.credit # 0 => last'.m.asset \notin {BTC, XCP}
           /\ \A k \in DOMAIN balances' : k[2] \notin {BTC, XCP} \/ k \in DOMAIN balances
           /\ NativeTotal(balances') <= NativeTotal(balances) ]_vars

\* after a valid issuance that paid its fee, an issuance of one unit of the
\* native protocol asset by a funded address was refused and changed no
\* balance
C30_Witness ==
    /\ Len(issuances) >= 2
    /\ IsValidRow(issuances[1]) /\ issuances[1].fee_paid > 0
    /\ LastRow.tx_index = last.tx.tx_index
    /\ LastRow.asset = XCP /\ last.m.quantity = 1 /\ last.tx.source = A1
    /\ LastRow.status = Invalid(<<"cannot issue BTC or XCP">>)
    /\ last.credit = 0 /\ last.debit = 0
    /\ NativeTotal(balances) = Funds - issuances[1].fee_paid

----------------------------------------------------------------------------
(* Accounting: what parse credited and debited, against the rows it        *)
(* stored.  Checked on SpecFirst, where a1 starts with Funds of the native *)
(* protocol asset and nothing else is held.                                *)

RECURSIVE SumFeePaid(_)
\* the sum of fee_paid over the rows of a sequence
SumFeePaid(rows) ==
    IF rows = <<>> THEN 0 ELSE rows[1].fee_paid + SumFeePaid(Tail(rows))

\* the valid issuance rows of an asset sent by an address
ValidRowsOf(address, asset) ==
    SelectSeq(issuances,
              LAMBDA r : IsValidRow(r) /\ r.asset = asset /\ r.source = address)

\* the valid issuance rows of every asset
ValidRows == SelectSeq(issuances, IsValidRow)

\* what an address holds of an asset, nothing if it has no balance row
Held(address, asset) ==
    IF <<address, asset>> \in DOMAIN balances THEN balances[<<address, asset>>] ELSE 0

\* every address holds of every issued asset the quantities of the valid
\* rows it sent
CreditsMatchRows ==
    \A address \in {A1, A2} : \A asset \in {BAAA, BAAB} :
        Held(address, asset) = SumQuantity(ValidRowsOf(address, asset))

\* the native protocol asset that left the balances is the fee_paid of the
\* valid rows
FeesMatchRows == Funds - NativeTotal(balances) = SumFeePaid(ValidRows)

\* C31: after any sequence of parsed messages, the amount of every asset
\* credited by parse is the sum of quantity over the asset's valid rows,
\* each credit held by the source of its message, and the native protocol
\* asset debited as fees is the sum of fee_paid over the valid rows.
C31_CreditsAndFeesMatchRows == CreditsMatchRows /\ FeesMatchRows

----------------------------------------------------------------------------
(* compose, lines 329-415.  The arguments come typed (no None), so the     *)
(* defaults of lines 137-146 do not act.  answers holds what the           *)
(* collaborators outside this module answer during the call:               *)
(* util.generate_random_asset, assetgroup.validate's problems and          *)
(* dispenser.is_opened.                                                    *)

\* util.generate_asset_id(asset_name, block_index) on the names the model
\* uses; <<>> stands for AssetNameError
generate_asset_id(asset_name, block_index) ==
    CASE asset_name = BTC  -> IdBTC
      [] asset_name = XCP  -> IdXCP
      [] asset_name = BAAA -> IdBAAA
      [] asset_name = BAAB -> IdBAAB
      [] asset_name = B6   -> IdB6
      [] asset_name = Num1 -> IdNum1
      [] asset_name = Num2 -> IdNum2
      [] OTHER -> <<>>

\* util.compact_subasset_longname(name) on the long-names the model uses
compact_subasset_longname(name) ==
    CASE name = LongX  -> <<1, 1>>
      [] name = LongY  -> <<1, 2>>
      [] name = GroupG -> <<3>>
      [] OTHER         -> <<0>>

\* lines 333-347: the call fields of the last valid issuance, or none
ComposeCallFields(db, asset) ==
    LET Of(rows) ==
            IF rows # <<>>
            THEN [callable   |-> Truthy(rows[Len(rows)].callable),
                  call_date  |-> rows[Len(rows)].call_date,
                  call_price |-> rows[Len(rows)].call_price]
            ELSE [callable |-> FALSE, call_date |-> 0, call_price |-> 0]
    IN Of(ValidIssuances(db, asset))

\* lines 350-373: the asset and the sub-asset names validate is given
ComposeNames(db, c, block_index, random_asset) ==
    LET Known(longname) ==
            SelectSeq(db.assets, LAMBDA a : a.asset_longname = longname)
        Sub(names) ==
            IF names.longname = NoName
            THEN [asset |-> c.asset, subasset_parent |-> names.parent,
                  subasset_longname |-> NoName]
            ELSE [asset |-> IF Known(names.longname) # <<>>
                            THEN Known(names.longname)[1].asset_name
                            ELSE random_asset,
                  subasset_parent |-> names.parent,
                  subasset_longname |-> names.longname]
    IN IF enabled("subassets", block_index) /\ c.fungible
       THEN Sub(parse_subasset_from_asset_name(c.asset))
       ELSE IF enabled("non_fungible_assets", block_index) /\ ~c.fungible
       THEN [asset |-> random_asset, subasset_parent |-> random_asset,
             subasset_longname |-> c.asset]
       ELSE [asset |-> c.asset, subasset_parent |-> NoName,
             subasset_longname |-> NoName]

\* line 375: the arguments compose hands to validate
ComposeArgs(c, names, call, block_index, answers) ==
    [status |-> <<"valid">>, unpacked |-> TRUE, asset_id |-> <<>>,
     source |-> c.source, destination |-> c.transfer_destination,
     asset |-> names.asset, quantity |-> c.quantity,
     divisible |-> c.divisible, listed |-> c.listed,
     reassignable |-> c.reassignable, vendable |-> c.vendable,
     fungible |-> c.fungible,
     callable |-> call.callable, call_date |-> call.call_date,
     call_price |-> call.call_price, description |-> c.description,
     subasset_parent |-> names.subasset_parent,
     subasset_longname |-> names.subasset_longname,
     block_index |-> block_index,
     assetgroup_problems |-> answers.assetgroup_problems,
     dispenser_opened |-> answers.dispenser_opened]

\* lines 378-415: the message and the outputs, once validate found no
\* problem
Composed(m, v) ==
    LET flags == PackFlags(m.divisible, m.listed, m.reassignable, m.vendable,
                           m.fungible)
        Data(asset_id) ==
            IF m.subasset_longname = NoName \/ v.reissuance
            THEN [message_type_id |-> ID,
                  data |-> PackIssuance(asset_id, m.quantity, flags, m.callable,
                                        v.call_date, v.call_price, m.description)]
            ELSE [message_type_id |-> SUBASSET_ID,
                  data |-> PackSubasset(asset_id, m.quantity, flags,
                              compact_subasset_longname(m.subasset_longname),
                              m.description)]
        Returned(d) ==
            [exc |-> "none", problems |-> <<>>, source |-> m.source,
             destination |-> m.destination,
             message_type_id |-> d.message_type_id, data |-> d.data]
    IN Returned(Data(generate_asset_id(m.asset, m.block_index)))

\* compose(db, source, transfer_destination, asset, quantity, divisible,
\* listed, reassignable, vendable, fungible, description) at
\* util.CURRENT_BLOCK_INDEX = block_index: what it returns, or the
\* ComposeError it raises
compose(db, c, block_index, answers) ==
    LET Checked(m, v) ==
            IF v.problems # <<>>
            THEN [exc |-> "ComposeError", problems |-> v.problems,
                  source |-> c.source, destination |-> c.transfer_destination,
                  message_type_id |-> 0, data |-> <<>>]
            ELSE Composed(m, v)
        Given(m) == Checked(m, validate(db, m))
    IN Given(ComposeArgs(c, ComposeNames(db, c, block_index, answers.random_asset),
                         ComposeCallFields(db, c.asset), block_index, answers))

\* the collaborators' answers when no group is owned by another address, no
\* dispenser is open and the random numeric name is the first one
NoAnswers ==
    [assetgroup_problems |-> <<>>, dispenser_opened |-> FALSE, random_asset |-> Num1]

\* a call of compose
Call(source, transfer_destination, asset, quantity, divisible, fungible, description) ==
    [source |-> source, transfer_destination |-> transfer_destination,
     asset |-> asset, quantity |-> quantity, divisible |-> divisible,
     listed |-> TRUE, reassignable |-> TRUE, vendable |-> TRUE,
     fungible |-> fungible, description |-> description]

\* a sender composes an issuance at height h and, compose having raised
\* nothing, the host hands parse the transaction built from what it
\* returned, at the same height and before any other message
Relay(c, h, max) ==
    \E r \in {compose(DB, c, h, NoAnswers)} :
        /\ r.exc = "none"
        /\ Parse(SendRaw(r.source, r.destination, r.message_type_id, r.data, h), max)

----------------------------------------------------------------------------
(* SpecCompose: issuances, reissuances and transfers of one asset composed *)
(* by its owner and parsed at once, with descriptions around the 42-byte   *)
(* limit, below block 317500 and above, and one sub-asset and one          *)
(* non-fungible issuance.                                                  *)

ComposeLengths == {0, 41, 42, 43}

ComposeHeights == {310000, Later}

StandardCalls ==
    { Call(A1, d, BAAA, q, dv, TRUE, Text(n)) :
        d \in {NoAddr, A2}, q \in {0, 1}, dv \in BOOLEAN, n \in ComposeLengths }

ComposeCalls ==
    StandardCalls \cup { Call(A1, NoAddr, LongX, 1, TRUE, TRUE, <<>>),
                         Call(A1, NoAddr, GroupG, 1, FALSE, FALSE, <<>>) }

InitCompose == InitLedger({Config("mainnet", {})}, Funds)

NextCompose ==
    \E c \in ComposeCalls : \E h \in ComposeHeights : Relay(c, h, MaxTxCompose)

SpecCompose == InitCompose /\ [][NextCompose]_vars

\* the latest call of parse was given what compose returns for c in the
\* ledger state before the call, at the height of the call (a step formula)
Relayed(c) ==
    \E r \in {compose(DB, c, last'.tx.block_index, NoAnswers)} :
        /\ r.exc = "none"
        /\ last'.message = r.data
        /\ last'.message_type_id = r.message_type_id
        /\ last'.tx.source = r.source
        /\ last'.tx.destination = r.destination

\* the row parse stored has the quantity, the flags and the description
\* compose was given, and is valid (a step formula)
StoredAsComposed(c) ==
    /\ RowAdded
    /\ IsValidRow(NewRow)
    /\ NewRow.quantity = c.quantity
    /\ NewRow.divisible = SqlBool(c.divisible)
    /\ NewRow.listed = SqlBool(c.listed)
    /\ NewRow.reassignable = SqlBool(c.reassignable)
    /\ NewRow.vendable = SqlBool(c.vendable)
    /\ NewRow.fungible = SqlBool(c.fungible)
    /\ NewRow.description = c.description

\* C32: whenever compose raises no ComposeError for a standard issuance
\* (fungible, no sub-asset name) in a ledger state at a block, parsing what
\* it returned with the same source and destination in that state and at
\* that block stores a valid row with the same quantity, flags and
\* description, a description of exactly 42 bytes and blocks below 317500
\* included.
C32_ComposerAndParserAgree ==
    [][ \A c \in StandardCalls : Relayed(c) => StoredAsComposed(c) ]_vars

====
